---- MODULE Spec2Model ----
(***************************************************************************)
(* Model of the bog orchestration engine:                                  *)
(*   orchestrate        (src/orchestrate/orchestrator.rs)                  *)
(*   run_skim_lifecycle (src/orchestrate/skim.rs)                          *)
(*   execute_agent_task (src/orchestrate/agent.rs)                         *)
(*   run_dock           (src/orchestrate/dock.rs)                          *)
(*   WorktreeManager    (crates/bog-orchestrate/src/worktree.rs)           *)
(*   validate_plan, topological_sort (crates/bog-orchestrate/src/plan.rs)  *)
(*   check_agent_permissions (crates/bog-orchestrate/src/permissions.rs)   *)
(* Task indices are 0-based as in the source; TLA+ sequences are 1-based,  *)
(* so task i is tasks[i + 1].                                              *)
(***************************************************************************)
EXTENDS Integers, Sequences, FiniteSets, TLC

VARIABLES
    pc,               \* position of the coordinator thread
    config,           \* OrchestrateConfig {max_replan_attempts, merge_strategy}
    attempt,          \* loop variable of `for attempt in 0..=max_replan_attempts`
    replan_context,   \* Option<ReplanContext>
    plan,             \* DockPlan.tasks of the current attempt (skim: one task per packet)
    execution_order,  \* result of topological_sort (skim: packet order)
    pos,              \* 1-based position in execution_order of the task in hand
    agent_results,    \* Vec<AgentResult> of the current attempt
    all_violations,   \* Vec<(agent, Vec<Violation>)> of the current attempt
    any_failed,       \* the any_failed flag
    cur,              \* the AgentResult in hand between execute and push
    mpos,             \* 1-based position of the final merge loop
    active,           \* WorktreeManager.active (the registry)
    wtdirs,           \* git: agents whose worktree directory is registered on disk
    branches,         \* git: branch bog/orchestrate/<run>/<agent> -> its commit
    root,             \* git: merge commits on the root tree, oldest first
    result,           \* what the run returned (NoResult while running)
    running,          \* provider subprocesses currently alive
    dock_calls,       \* history: number of run_dock invocations
    command,          \* main.rs Commands: "Run" (orchestrate) or "Skim"
    work_packets,     \* skim.rs: Vec<SubsystemWorkPacket>, sorted by subsystem
    output,           \* the ProviderOutput the result in hand was built from
    ipc,              \* provider.rs invoke: position of the invoking thread
    child,            \* the external process: what it still does, and its fate
    pipes,            \* bytes buffered by the OS in the stdout and stderr pipes
    threads,          \* state of the two reader threads of one invoke call
    holders,          \* pipes whose write end a descendant of the child holds
    clock,            \* polls of the wait loop that found the child alive
    iret,             \* what invoke returned
    call,             \* a library function called on its own, with its arguments
    ret               \* what the called function returned

vars == <<pc, config, attempt, replan_context, plan, execution_order, pos,
          agent_results, all_violations, any_failed, cur, mpos, active,
          wtdirs, branches, root, result, running, dock_calls, command,
          work_packets, output, ipc, child, pipes, threads, holders, clock,
          iret, call, ret>>

\* the state only run_skim_lifecycle writes
skimvars == <<command, work_packets>>

\* the state of one provider.invoke call
invokevars == <<ipc, child, pipes, threads, holders, clock, iret>>

\* the state of one library call
callvars == <<call, ret>>

----------------------------------------------------------------------------
(* Bounds of the model *)

\* largest value of config.max_replan_attempts that is explored
MaxReplanBound == 1

\* largest number of chunks a child process writes to its pipes
MaxWrites == 3

\* chunks the OS buffers in one pipe before a write blocks
PipeCap == 1

\* polls of the wait loop that find the child alive before the timeout has
\* elapsed (timeout_seconds over the 200 ms sleep)
TimeoutPolls == 2

\* largest number of tasks of a plan handed to validate_plan and
\* topological_sort, and of entries of one depends_on list
MaxTasks == 2
MaxDeps == 1

\* largest number of entries of a diff, and of paths in one git listing
MaxDiffLen == 2

\* largest number of worktrees in the registry handed to cleanup_run
MaxRegistry == 3

\* largest number of characters of a plan's summary, of the prose on either
\* side of a plan text, and of a text handed to parse_dock_output as it is
MaxSummaryLen == 1
MaxProse == 1
MaxText == 3

----------------------------------------------------------------------------
(* The ownership directory (RepoContext): immutable during a run *)

None == "None"
NoResult == "NoResult"
RunId == "run"

\* agents that may be named by a plan; ghost-agent is not registered
AgentNames == {"core-agent", "cli-agent", "quality-agent", "ghost-agent"}

\* RepoContext::agent_role: the role bog.toml gives the agent; docs-agent and
\* broken-agent are registered there as Subsystem agents
agent_role(agent) ==
    CASE agent \in {"core-agent", "cli-agent", "docs-agent", "broken-agent"}
             -> "Subsystem"
      [] agent = "quality-agent" -> "Skimsystem"
      [] OTHER -> None

\* A path is the sequence of the pieces of its text, so "src/ast.rs.bog" is
\* <<"src/", "ast", ".rs", ".bog">>; a glob pattern is such a sequence too,
\* with "*" for the wildcard and "[" for an unclosed character class.
SrcAst == <<"src/", "ast", ".rs">>
SrcCli == <<"src/", "cli", ".rs">>
SrcAstBog == <<"src/", "ast", ".rs", ".bog">>
SrcParserMod == <<"src/", "parser", "/", "mod", ".rs">>
SrcAstBogRs == <<"src/", "ast", ".bog", ".rs">>

\* RepoContext::agent_file_globs: src/ast.rs and src/parser* for core-agent,
\* src/cli.rs and the malformed src/[ for cli-agent, the malformed src/[ and
\* *[ for broken-agent; docs-agent owns no subsystem in repo.bog
agent_file_globs(agent) ==
    CASE agent = "core-agent" -> <<SrcAst, <<"src/", "parser", "*">>>>
      [] agent = "cli-agent" -> <<SrcCli, <<"src/", "[">>>>
      [] agent = "broken-agent" -> <<<<"src/", "[">>, <<"*", "[">>>>
      [] OTHER -> <<>>

\* paths an agent may touch in its worktree
Paths == {SrcAst, SrcCli, SrcAstBog, SrcParserMod, SrcAstBogRs}

\* str::ends_with(".bog")
ends_with_bog(path) == path # <<>> /\ path[Len(path)] = ".bog"

\* glob::Pattern::new fails on a pattern with an unclosed character class
pattern_is_valid(pattern) == \A k \in 1..Len(pattern) : pattern[k] # "["

\* glob::Pattern::matches with the default MatchOptions: a literal piece
\* matches itself, "*" matches any run of pieces, separators included
RECURSIVE glob_matches(_, _)
glob_matches(pattern, path) ==
    IF pattern = <<>> THEN path = <<>>
    ELSE IF Head(pattern) = "*"
         THEN \/ glob_matches(Tail(pattern), path)
              \/ path # <<>> /\ glob_matches(pattern, Tail(path))
         ELSE /\ path # <<>>
              /\ Head(path) = Head(pattern)
              /\ glob_matches(Tail(pattern), Tail(path))

\* a match that takes a pattern that fails to compile for one that matches
matches_any_glob_FailOpen(path, patterns) ==
    \E k \in 1..Len(patterns) :
        pattern_is_valid(patterns[k]) => glob_matches(patterns[k], path)

\* permissions.rs matches_any_glob: a pattern that fails to compile matches
\* nothing (unwrap_or(false))
matches_any_glob(path, patterns) ==
    \E k \in 1..Len(patterns) :
        pattern_is_valid(patterns[k]) /\ glob_matches(patterns[k], path)

\* a Skimsystem rule that accepts .bog anywhere in the path
IsViolation_BogAnywhere(agent, path) ==
    CASE agent_role(agent) = "Subsystem" ->
            ~matches_any_glob(path, agent_file_globs(agent))
      [] agent_role(agent) = "Skimsystem" ->
            ~(\E k \in 1..Len(path) : path[k] = ".bog")
      [] OTHER -> TRUE

\* is this diff entry a violation for the agent (one arm of the match on role)
IsViolation(agent, path) ==
    CASE agent_role(agent) = "Subsystem" ->
            ~matches_any_glob(path, agent_file_globs(agent))
      [] agent_role(agent) = "Skimsystem" -> ~ends_with_bog(path)
      [] OTHER -> TRUE

\* a check that stops at the first offending entry
RECURSIVE FilterViolations_ShortCircuit(_, _)
FilterViolations_ShortCircuit(agent, diff) ==
    IF diff = <<>> THEN <<>>
    ELSE IF IsViolation(agent, Head(diff)) THEN <<Head(diff)>>
         ELSE FilterViolations_ShortCircuit(agent, Tail(diff))

\* the loop over diff_entries: the offending entries, in order
RECURSIVE FilterViolations(_, _)
FilterViolations(agent, diff) ==
    IF diff = <<>> THEN <<>>
    ELSE IF IsViolation(agent, Head(diff))
         THEN <<Head(diff)>> \o FilterViolations(agent, Tail(diff))
         ELSE FilterViolations(agent, Tail(diff))

\* permissions.rs check_agent_permissions: the offending paths, in diff order
check_agent_permissions(agent, diff) == FilterViolations(agent, diff)

----------------------------------------------------------------------------
(* Plans: validate_plan and topological_sort (plan.rs) *)

\* the plans run_dock may extract from the planner's output
PlanEmpty == <<>>
PlanSingle == <<[agent |-> "core-agent", depends_on |-> <<>>]>>
PlanLinear == <<[agent |-> "core-agent", depends_on |-> <<>>],
                [agent |-> "cli-agent", depends_on |-> <<0>>]>>
PlanParallel == <<[agent |-> "core-agent", depends_on |-> <<>>],
                  [agent |-> "cli-agent", depends_on |-> <<>>],
                  [agent |-> "quality-agent", depends_on |-> <<0, 1>>]>>
PlanSameAgent == <<[agent |-> "core-agent", depends_on |-> <<>>],
                   [agent |-> "core-agent", depends_on |-> <<>>]>>
PlanGhost == <<[agent |-> "ghost-agent", depends_on |-> <<>>]>>
PlanSelfDep == <<[agent |-> "core-agent", depends_on |-> <<0>>]>>
PlanOutOfBounds == <<[agent |-> "core-agent", depends_on |-> <<>>],
                     [agent |-> "cli-agent", depends_on |-> <<5>>]>>

Plans == {PlanEmpty, PlanSingle, PlanLinear, PlanParallel, PlanSameAgent,
          PlanGhost, PlanSelfDep, PlanOutOfBounds}

\* number of occurrences of d in the list deps
RECURSIVE Count(_, _)
Count(deps, d) ==
    IF deps = <<>> THEN 0
    ELSE (IF Head(deps) = d THEN 1 ELSE 0) + Count(Tail(deps), d)

\* i repeated k times
RECURSIVE Repeat(_, _)
Repeat(i, k) == IF k = 0 THEN <<>> ELSE <<i>> \o Repeat(i, k - 1)

\* adj[d]: for i ascending, i pushed once per occurrence of d in depends_on
RECURSIVE AdjFrom(_, _, _)
AdjFrom(tasks, d, i) ==
    IF i >= Len(tasks) THEN <<>>
    ELSE Repeat(i, Count(tasks[i + 1].depends_on, d)) \o AdjFrom(tasks, d, i + 1)

\* an initial queue that holds every task
RECURSIVE ZeroInDegree_All(_, _)
ZeroInDegree_All(tasks, i) ==
    IF i >= Len(tasks) THEN <<>> ELSE <<i>> \o ZeroInDegree_All(tasks, i + 1)

\* the initial queue: (0..n).filter(in_degree == 0), ascending
RECURSIVE ZeroInDegree(_, _)
ZeroInDegree(tasks, i) ==
    IF i >= Len(tasks) THEN <<>>
    ELSE (IF Len(tasks[i + 1].depends_on) = 0 THEN <<i>> ELSE <<>>)
         \o ZeroInDegree(tasks, i + 1)

\* an inner loop that never pushes a task
Relax_NoPush(nexts, in_degree, queue) ==
    [in_degree |-> in_degree, queue |-> queue]

\* the inner for loop over adj[node]: decrement, push when zero
RECURSIVE Relax(_, _, _)
Relax(nexts, in_degree, queue) ==
    IF nexts = <<>> THEN [in_degree |-> in_degree, queue |-> queue]
    ELSE LET next == Head(nexts)
             deg  == in_degree[next] - 1
         IN Relax(Tail(nexts),
                  [in_degree EXCEPT ![next] = deg],
                  IF deg = 0 THEN Append(queue, next) ELSE queue)

\* Kahn with the ready tasks taken from the front: a queue
RECURSIVE Kahn_Fifo(_, _, _, _)
Kahn_Fifo(tasks, in_degree, queue, order) ==
    IF queue = <<>> THEN order
    ELSE LET node == Head(queue)
             r    == Relax(AdjFrom(tasks, node, 0), in_degree, Tail(queue))
         IN Kahn_Fifo(tasks, r.in_degree, r.queue, Append(order, node))

\* Kahn with order.insert(0, node) in place of order.push(node)
RECURSIVE Kahn_Prepend(_, _, _, _)
Kahn_Prepend(tasks, in_degree, queue, order) ==
    IF queue = <<>> THEN order
    ELSE LET node == queue[Len(queue)]
             rest == SubSeq(queue, 1, Len(queue) - 1)
             r    == Relax(AdjFrom(tasks, node, 0), in_degree, rest)
         IN Kahn_Prepend(tasks, r.in_degree, r.queue, <<node>> \o order)

\* while let Some(node) = queue.pop(): the queue is a stack
RECURSIVE Kahn(_, _, _, _)
Kahn(tasks, in_degree, queue, order) ==
    IF queue = <<>> THEN order
    ELSE LET node == queue[Len(queue)]
             rest == SubSeq(queue, 1, Len(queue) - 1)
             r    == Relax(AdjFrom(tasks, node, 0), in_degree, rest)
         IN Kahn(tasks, r.in_degree, r.queue, Append(order, node))

\* the order emitted by the loop of topological_sort
KahnOrder(tasks) ==
    Kahn(tasks,
         [i \in 0..(Len(tasks) - 1) |-> Len(tasks[i + 1].depends_on)],
         ZeroInDegree(tasks, 0),
         <<>>)

\* topological_sort without the test of the length of the order
topological_sort_Unchecked(tasks) == [ok |-> TRUE, order |-> KahnOrder(tasks)]

\* plan.rs topological_sort: Ok(order) or Err(InvalidPlan)
topological_sort(tasks) ==
    LET order == KahnOrder(tasks)
    IN IF Len(order) # Len(tasks)
       THEN [ok |-> FALSE, order |-> <<>>]
       ELSE [ok |-> TRUE, order |-> order]

\* per-task checks without the test against the task's own index
TaskValid_BoundsOnly(tasks, i) ==
    /\ agent_role(tasks[i + 1].agent) # None
    /\ \A k \in 1..Len(tasks[i + 1].depends_on) :
          tasks[i + 1].depends_on[k] < Len(tasks)

\* the per-task checks of validate_plan
TaskValid(tasks, i) ==
    /\ agent_role(tasks[i + 1].agent) # None
    /\ \A k \in 1..Len(tasks[i + 1].depends_on) :
          LET dep == tasks[i + 1].depends_on[k]
          IN dep < Len(tasks) /\ dep < i

\* validate_plan without the loop over the tasks
validate_plan_SortOnly(tasks) == topological_sort(tasks).ok

\* plan.rs validate_plan: TRUE for Ok(()), FALSE for Err(InvalidPlan)
validate_plan(tasks) ==
    /\ \A i \in 0..(Len(tasks) - 1) : TaskValid(tasks, i)
    /\ topological_sort(tasks).ok


----------------------------------------------------------------------------
(* WorktreeManager (worktree.rs) *)

\* the diffs inspect_diff may report for a worktree, as path lists
Diffs == {<<>>, <<SrcAst>>, <<SrcCli>>, <<SrcAstBog>>}

Policies == {"Incremental", "AllOrNothing"}

\* the branch of an agent's worktree in this run, if git has one
BranchOf(agent) == {b \in branches : b.agent = agent}

\* a HEAD that does not move with the merges of the current attempt
head_sha_Stale ==
    Cardinality({k \in 1..Len(root) : root[k].files # <<>> /\ root[k].attempt < attempt})

\* head_sha: HEAD of the root tree, identified by the number of merge
\* commits that changed it (merging a branch without commits adds none)
head_sha == Cardinality({k \in 1..Len(root) : root[k].files # <<>>})

\* a git that adds a worktree whatever branches and paths exist
CanCreate_Always(agent) == TRUE

\* `git worktree add -b <branch> <path> HEAD` refuses an existing branch or path
CanCreate(agent) == BranchOf(agent) = {} /\ agent \notin wtdirs

\* worktree.rs find_worktree: the first registered worktree of the agent
find_worktree(agent, run_id) ==
    LET hits == {k \in 1..Len(active) :
                    active[k].agent = agent /\ active[k].run_id = run_id}
    IN IF hits = {} THEN <<>>
       ELSE <<active[CHOOSE k \in hits : \A j \in hits : k <= j]>>

\* a merge that rewrites the history of the root tree below the merge
merge_changes_Prepend(wt) ==
    LET b == CHOOSE x \in BranchOf(wt.agent) : TRUE
    IN <<b>> \o root

\* the root tree after `git merge --no-ff <branch of wt>` succeeded
merge_changes(wt) ==
    LET b == CHOOSE x \in BranchOf(wt.agent) : TRUE
    IN Append(root, b)

\* outcomes of remove_worktree on one worktree: both git commands succeed,
\* `git worktree remove` fails (the branch is then kept too), or only the
\* `git branch -D` whose result is discarded fails
RemoveOutcomes == {"removed", "remove_failed", "branch_kept"}

ActiveAgents == {active[k].agent : k \in 1..Len(active)}

\* git state after cleanup_run called remove_worktree on every drained
\* worktree, out[a] being the outcome for the worktree of agent a
cleanup_wtdirs(out) ==
    {a \in wtdirs : a \in ActiveAgents => out[a] = "remove_failed"}

\* a remove_worktree that deletes the branch whatever the removal did
cleanup_branches_Always(out) == {b \in branches : b.agent \notin ActiveAgents}

\* worktree.rs:245-274: the branch goes only after a successful removal
cleanup_branches(out) ==
    {b \in branches : b.agent \in ActiveAgents => out[b.agent] # "removed"}

\* cleanup_run that removes the worktrees but leaves them registered
cleanup_run_KeepRegistry(out) ==
    /\ active' = active
    /\ wtdirs' = cleanup_wtdirs(out)
    /\ branches' = cleanup_branches(out)

\* worktree.rs cleanup_run: drain the registry, best-effort removal
cleanup_run(out) ==
    /\ active' = <<>>
    /\ wtdirs' = cleanup_wtdirs(out)
    /\ branches' = cleanup_branches(out)

----------------------------------------------------------------------------
(* Results *)

OkResult(merged) == [kind |-> "Ok", merged |-> merged, error |-> ""]
ErrResult(e) == [kind |-> "Err", merged |-> FALSE, error |-> e]
Running == [kind |-> NoResult, merged |-> FALSE, error |-> ""]

\* provider.rs ProviderOutput, reduced to its exit code
ExitCodes == {0, 1}
ProviderOutput(exit_code) == [present |-> TRUE, exit_code |-> exit_code]
NoOutput == [present |-> FALSE, exit_code |-> 0]

\* no provider.invoke call is being looked at
NoChild == [state |-> "none", todo |-> <<>>, exits |-> FALSE, exit_code |-> 0]
NoInvokeReturn == [kind |-> "none", exit_code |-> 0]
NotInvoking ==
    /\ ipc = "idle"
    /\ child = NoChild
    /\ pipes = [p \in {"stdout", "stderr"} |-> 0]
    /\ threads = [p \in {"stdout", "stderr"} |-> "none"]
    /\ holders = {}
    /\ clock = 0
    /\ iret = NoInvokeReturn

\* no library function is being called on its own
NoCall == [fn |-> "none", agent |-> "", paths |-> <<>>, tasks |-> <<>>,
           untracked |-> <<>>, committed |-> <<>>, registry |-> <<>>,
           run_id |-> "", plan |-> [summary |-> <<>>, tasks |-> 0],
           form |-> "", before |-> <<>>, after |-> <<>>]
Pending == [kind |-> "pending", value |-> <<>>]
NotCalling ==
    /\ call = NoCall
    /\ ret = Pending

NoTask == [agent |-> "", task_index |-> 0, status |-> "", files_modified |-> <<>>,
           violations |-> <<>>]

NoReplan == [present |-> FALSE, previous_plan |-> <<>>, violations |-> <<>>,
             attempt_number |-> 0]

\* a replan on every violation, whatever the attempt
ShouldReplan_AnyAttempt == all_violations # <<>>

\* orchestrator.rs:153: the condition under which a rejected attempt is replanned
ShouldReplan == attempt < config.max_replan_attempts /\ all_violations # <<>>

\* a merge decision that looks at nothing
AttemptClean_Always == TRUE

\* orchestrator.rs:127: the attempt is clean
AttemptClean == all_violations = <<>> /\ ~any_failed

\* a merge on every Success whatever the strategy
MergesOnSuccess_Always == TRUE

\* a strategy test that never merges inside the loop
MergesOnSuccess_Never == FALSE

\* orchestrator.rs:98: a Success worktree is merged inside the loop
MergesOnSuccess == config.merge_strategy = "Incremental"

\* a context that carries the number of the attempt that was rejected
NewReplanContext_SameNumber ==
    [present |-> TRUE, previous_plan |-> plan, violations |-> all_violations,
     attempt_number |-> attempt]

\* orchestrator.rs:154-158: the context handed to the next run_dock
NewReplanContext ==
    [present |-> TRUE, previous_plan |-> plan, violations |-> all_violations,
     attempt_number |-> attempt + 1]

\* a loop that starts the next attempt without counting it
NextAttempt_Stuck == attempt

\* orchestrator.rs:52: the step of `for attempt in 0..=max_replan_attempts`
NextAttempt == attempt + 1

\* a loop that never breaks
BreakLoop_Never(failed) == FALSE

\* orchestrator.rs:121: the loop over the tasks breaks
BreakLoop(failed) == failed

----------------------------------------------------------------------------
(* orchestrate (orchestrator.rs) *)

InitRun ==
    /\ command = "Run"
    /\ pc = "dock"
    /\ config \in [max_replan_attempts : 0..MaxReplanBound, merge_strategy : Policies]

\* run_skim_lifecycle takes no OrchestrateConfig; the default is never read
InitSkim ==
    /\ command = "Skim"
    /\ pc = "skim"
    /\ config = [max_replan_attempts |-> 0, merge_strategy |-> "AllOrNothing"]

\* the locals of orchestrate and the git state when a run starts
InitState ==
    /\ work_packets = <<>>
    /\ attempt = 0
    /\ replan_context = NoReplan
    /\ plan = <<>>
    /\ execution_order = <<>>
    /\ pos = 1
    /\ agent_results = <<>>
    /\ all_violations = <<>>
    /\ any_failed = FALSE
    /\ cur = NoTask
    /\ mpos = 1
    /\ active = <<>>
    /\ wtdirs = {}
    /\ branches = {}
    /\ root = <<>>
    /\ result = Running
    /\ running = {}
    /\ dock_calls = 0
    /\ output = NoOutput

\* a run of the coordinator: no invoke call and no library call is looked at
\* on its own
Init ==
    /\ InitRun \/ InitSkim
    /\ InitState
    /\ NotInvoking
    /\ NotCalling

\* return Err(e) / return Ok(..): the run is over
Return(r) == /\ result' = r
             /\ pc' = "done"

\* an error of the task that sends the run back to the planner
TaskError_Replan(e) == /\ pc' = "dock"
                       /\ UNCHANGED result

\* orchestrator.rs:86,89,100: `?` on a task-level error returns it
TaskError(e) == Return(ErrResult(e))

\* cleanup_run applied to the git state left by the task in hand
CleanupAfter(bs) ==
    \E out \in [ActiveAgents -> RemoveOutcomes] :
        /\ active' = <<>>
        /\ wtdirs' = cleanup_wtdirs(out)
        /\ branches' = {b \in bs : b.agent \in ActiveAgents => out[b.agent] # "removed"}

\* an error return that cleans the run up first, as run_skim does
LeftBehind_Cleanup(bs) == CleanupAfter(bs)

\* orchestrator.rs:86,89,100,133: `?` returns the error with no cleanup_run
\* before it; bs are the branches as the failed call left them
LeftBehind(bs) ==
    /\ active' = active
    /\ wtdirs' = wtdirs
    /\ branches' = bs

\* dock.rs run_dock up to provider.invoke: the planner subprocess is spawned
DockStart ==
    /\ pc = "dock"
    /\ pc' = "dock_wait"
    /\ running' = running \cup {"dock"}
    /\ dock_calls' = dock_calls + 1
    /\ UNCHANGED <<config, attempt, replan_context, plan, execution_order, pos,
                   agent_results, all_violations, any_failed, cur, mpos, active,
                   wtdirs, branches, root, result>>
    /\ UNCHANGED skimvars
    /\ UNCHANGED output
    /\ UNCHANGED <<invokevars, callvars>>

\* what orchestrate does with the plan run_dock returned (orchestrator.rs:61-79)
AcceptPlan(p) ==
    /\ validate_plan(p)
    /\ plan' = p
    /\ execution_order' = topological_sort(p).order
    /\ pc' = "loop"
    /\ UNCHANGED result

\* run_dock from the return of provider.invoke, and orchestrate's match on it
DockFinish ==
    /\ pc = "dock_wait"
    /\ running' = running \ {"dock"}
    /\ \/ /\ \E e \in {"Provider", "DockFailed"} : Return(ErrResult(e))
          /\ UNCHANGED <<plan, execution_order>>
       \/ \E p \in Plans :
             \/ AcceptPlan(p)
             \/ /\ ~validate_plan(p)
                /\ Return(ErrResult("InvalidPlan"))
                /\ UNCHANGED <<plan, execution_order>>
    /\ UNCHANGED <<config, attempt, replan_context, pos, agent_results,
                   all_violations, any_failed, cur, mpos, active, wtdirs,
                   branches, root, dock_calls>>
    /\ UNCHANGED skimvars
    /\ UNCHANGED output
    /\ UNCHANGED <<invokevars, callvars>>

\* the task in hand
TaskIdx == execution_order[pos]
Task == plan[TaskIdx + 1]

\* worktree.rs create_worktree, called at orchestrator.rs:86
CreateWorktree ==
    /\ pc = "loop"
    /\ pos <= Len(execution_order)
    /\ \/ /\ CanCreate(Task.agent)
          /\ active' = Append(active, [agent |-> Task.agent, run_id |-> RunId,
                                       base_commit |-> head_sha])
          /\ wtdirs' = wtdirs \cup {Task.agent}
          /\ branches' = branches \cup
                 {[agent |-> Task.agent, attempt |-> attempt, files |-> <<>>,
                   check |-> "none", commit |-> FALSE]}
          /\ pc' = "invoke"
          /\ UNCHANGED result
       \/ /\ TaskError("CreateFailed")
          /\ LeftBehind(branches)
    /\ UNCHANGED <<config, attempt, replan_context, plan, execution_order, pos,
                   agent_results, all_violations, any_failed, cur, mpos, root,
                   running, dock_calls>>
    /\ UNCHANGED skimvars
    /\ UNCHANGED output
    /\ UNCHANGED <<invokevars, callvars>>

\* the for loop over execution_order is exhausted
LoopExit ==
    /\ pc = "loop"
    /\ pos > Len(execution_order)
    /\ pc' = "phase3"
    /\ UNCHANGED <<config, attempt, replan_context, plan, execution_order, pos,
                   agent_results, all_violations, any_failed, cur, mpos, active,
                   wtdirs, branches, root, result, running, dock_calls>>
    /\ UNCHANGED skimvars
    /\ UNCHANGED output
    /\ UNCHANGED <<invokevars, callvars>>

\* agent.rs execute_agent_task up to provider.invoke (agent.rs:19-46)
InvokeAgent ==
    /\ pc = "invoke"
    /\ IF agent_role(Task.agent) = None
       THEN /\ TaskError("AgentFailed")
            /\ LeftBehind(branches)
            /\ UNCHANGED running
       ELSE /\ running' = running \cup {Task.agent}
            /\ pc' = "agent_wait"
            /\ UNCHANGED <<result, active, wtdirs, branches>>
    /\ UNCHANGED <<config, attempt, replan_context, plan, execution_order, pos,
                   agent_results, all_violations, any_failed, cur, mpos, root,
                   dock_calls>>
    /\ UNCHANGED skimvars
    /\ UNCHANGED output
    /\ UNCHANGED <<invokevars, callvars>>

\* an auto_commit that commits also when nothing is staged
auto_commit_Always(diff) == TRUE

\* worktree.rs auto_commit when its git commands succeed, diff being what
\* `git add -A` staged: Ok(false) without a commit if that is nothing,
\* Ok(true) after the commit otherwise
auto_commit(diff) == diff # <<>>

\* the branch of the worktree after auto_commit; check records what
\* check_agent_permissions said about the worktree's diff
Committed(agent, diff, check) ==
    {b \in branches : b.agent # agent}
        \cup {[agent |-> agent, attempt |-> attempt, files |-> diff,
               check |-> check, commit |-> auto_commit(diff)]}

\* an AgentResult whose status ignores the violations found
BuildResult_AlwaysSuccess(agent, task_index, diff) ==
    [agent |-> agent, task_index |-> task_index, status |-> "Success",
     files_modified |-> diff,
     violations |-> check_agent_permissions(agent, diff)]

\* agent.rs:62-84: the AgentResult built from the diff
BuildResult(agent, task_index, diff) ==
    LET violations == check_agent_permissions(agent, diff)
    IN [agent |-> agent, task_index |-> task_index,
        status |-> IF violations = <<>> THEN "Success" ELSE "PermissionViolation",
        files_modified |-> diff, violations |-> violations]

\* execute_agent_task from the return of provider.invoke (agent.rs:46-84)
AgentReturn ==
    /\ pc = "agent_wait"
    /\ running' = running \ {Task.agent}
    /\ \/ /\ \E e \in {"Provider", "AgentFailed"} : TaskError(e)
          /\ LeftBehind(branches)
          /\ UNCHANGED <<cur, output>>
       \/ \E diff \in Diffs :
             \/ /\ \E exit_code \in ExitCodes : output' = ProviderOutput(exit_code)
                /\ cur' = BuildResult(Task.agent, TaskIdx, diff)
                /\ branches' = Committed(Task.agent, diff,
                      IF cur'.violations = <<>> THEN "clean" ELSE "violation")
                /\ pc' = "match"
                /\ UNCHANGED <<result, active, wtdirs>>
             \/ /\ LeftBehind(Committed(Task.agent, diff, "none"))
                /\ TaskError("AgentFailed")
                /\ UNCHANGED <<cur, output>>
    /\ UNCHANGED <<config, attempt, replan_context, plan, execution_order, pos,
                   agent_results, all_violations, any_failed, mpos, root,
                   dock_calls>>
    /\ UNCHANGED skimvars
    /\ UNCHANGED <<invokevars, callvars>>

\* orchestrator.rs:91-123: the match on result.status, the push and the break
MatchStatus ==
    /\ pc = "match"
    /\ LET failed == cur.status # "Success"
           wt == find_worktree(cur.agent, RunId)
           merge_now == /\ cur.status = "Success"
                        /\ MergesOnSuccess
                        /\ wt # <<>>
       IN \/ /\ IF merge_now THEN root' = merge_changes(wt[1]) ELSE UNCHANGED root
             /\ all_violations' =
                   IF cur.status = "PermissionViolation"
                   THEN Append(all_violations,
                               [agent |-> cur.agent, violations |-> cur.violations])
                   ELSE all_violations
             /\ any_failed' = (any_failed \/ failed)
             /\ agent_results' = Append(agent_results, cur)
             /\ cur' = NoTask
             /\ output' = NoOutput
             /\ IF BreakLoop(any_failed')
                THEN pc' = "phase3" /\ UNCHANGED pos
                ELSE pc' = "loop" /\ pos' = pos + 1
             /\ UNCHANGED <<result, active, wtdirs, branches>>
          \/ /\ merge_now
             /\ TaskError("GitFailed")
             /\ LeftBehind(branches)
             /\ UNCHANGED <<root, all_violations, any_failed, agent_results, cur, pos,
                            output>>
    /\ UNCHANGED <<config, attempt, replan_context, plan, execution_order, mpos,
                   running, dock_calls>>
    /\ UNCHANGED skimvars
    /\ UNCHANGED <<invokevars, callvars>>

\* a failed merge that takes the earlier merges of the loop back
MergeFailed_RollBack == root' = SubSeq(root, 1, Len(root) - (mpos - 1))

\* orchestrator.rs:133: `?` on a failed merge_changes returns at once; the
\* merges the loop made before it stay in the root tree
MergeFailed == root' = root

\* orchestrator.rs:129-137: one iteration of the final merge loop
MergeNext ==
    /\ pc = "phase3"
    /\ AttemptClean
    /\ config.merge_strategy = "AllOrNothing"
    /\ mpos <= Len(agent_results)
    /\ LET r == agent_results[mpos]
           wt == find_worktree(r.agent, RunId)
           merge_now == r.status = "Success" /\ wt # <<>>
       IN \/ /\ IF merge_now THEN root' = merge_changes(wt[1]) ELSE UNCHANGED root
             /\ mpos' = mpos + 1
             /\ UNCHANGED <<pc, result, active, wtdirs, branches>>
          \/ /\ merge_now
             /\ Return(ErrResult("GitFailed"))
             /\ LeftBehind(branches)
             /\ MergeFailed
             /\ UNCHANGED mpos
    /\ UNCHANGED <<config, attempt, replan_context, plan, execution_order, pos,
                   agent_results, all_violations, any_failed, cur, running,
                   dock_calls>>
    /\ UNCHANGED skimvars
    /\ UNCHANGED output
    /\ UNCHANGED <<invokevars, callvars>>

\* orchestrator.rs:139-146: cleanup and return of the merged result
FinishMerged ==
    /\ pc = "phase3"
    /\ AttemptClean
    /\ config.merge_strategy = "AllOrNothing" => mpos > Len(agent_results)
    /\ \E out \in [ActiveAgents -> RemoveOutcomes] : cleanup_run(out)
    /\ Return(OkResult(TRUE))
    /\ UNCHANGED <<config, attempt, replan_context, plan, execution_order, pos,
                   agent_results, all_violations, any_failed, cur, mpos, root,
                   running, dock_calls>>
    /\ UNCHANGED skimvars
    /\ UNCHANGED output
    /\ UNCHANGED <<invokevars, callvars>>

\* results and violations that live on into the next attempt
FreshLocals_Kept == UNCHANGED <<agent_results, all_violations, any_failed>>

\* orchestrator.rs:77-79: agent_results, all_violations and any_failed are
\* declared inside the loop body, so `continue` starts them afresh
FreshLocals ==
    /\ agent_results' = <<>>
    /\ all_violations' = <<>>
    /\ any_failed' = FALSE

\* orchestrator.rs:149-168: reject the attempt, then replan or return; on
\* `continue` the locals of the loop body go out of scope
Reject ==
    /\ pc = "phase3"
    /\ ~AttemptClean
    /\ \E out \in [ActiveAgents -> RemoveOutcomes] : cleanup_run(out)
    /\ IF ShouldReplan
       THEN /\ replan_context' = NewReplanContext
            /\ attempt' = NextAttempt
            /\ plan' = <<>>
            /\ execution_order' = <<>>
            /\ FreshLocals
            /\ pos' = 1
            /\ mpos' = 1
            /\ IF attempt' <= config.max_replan_attempts
               THEN pc' = "dock" /\ UNCHANGED result
               ELSE Return(ErrResult("ReplanExhausted"))
       ELSE /\ Return(OkResult(FALSE))
            /\ UNCHANGED <<attempt, replan_context, plan, execution_order,
                           agent_results, all_violations, any_failed, pos, mpos>>
    /\ UNCHANGED <<config, cur, root, running, dock_calls>>
    /\ UNCHANGED skimvars
    /\ UNCHANGED output
    /\ UNCHANGED <<invokevars, callvars>>

----------------------------------------------------------------------------
(* run_skim_lifecycle (skim.rs) *)

\* subsystems that may hold pending change requests, in the order of
\* packets.sort_by(subsystem); "orphan" is named by a sidecar, not declared
SubsystemOrder == <<"cli", "core", "core-tests", "orphan">>

\* skim.rs:270-274: the owner of the subsystem, or "unknown"
subsystem_owner(subsystem) ==
    CASE subsystem = "cli" -> "cli-agent"
      [] subsystem \in {"core", "core-tests"} -> "core-agent"
      [] OTHER -> "unknown"

\* skim.rs collect_pending_requests: one packet per subsystem with pending
\* requests, sorted by subsystem name
collect_pending_requests(pending) ==
    LET names == SelectSeq(SubsystemOrder, LAMBDA n : n \in pending)
    IN [k \in 1..Len(names) |->
           [subsystem |-> names[k], agent |-> subsystem_owner(names[k])]]

\* skim.rs build_subsystem_task_from_requests
build_subsystem_task_from_requests(wp) ==
    [agent |-> wp.agent, depends_on |-> <<>>]

\* skim.rs:48-78: phases 1 and 2
SkimCollect ==
    /\ pc = "skim"
    /\ \/ /\ Return(ErrResult("ContextLoad"))
          /\ UNCHANGED <<work_packets, plan, execution_order>>
       \/ \E pending \in SUBSET {SubsystemOrder[k] : k \in 1..Len(SubsystemOrder)} :
             LET wps == collect_pending_requests(pending)
             IN /\ work_packets' = wps
                /\ plan' = [k \in 1..Len(wps) |->
                               build_subsystem_task_from_requests(wps[k])]
                /\ execution_order' = [k \in 1..Len(wps) |-> k - 1]
                /\ IF wps = <<>>
                   THEN Return(OkResult(TRUE))
                   ELSE pc' = "skim_loop" /\ UNCHANGED result
    /\ UNCHANGED <<config, attempt, replan_context, pos, agent_results,
                   all_violations, any_failed, cur, mpos, active, wtdirs,
                   branches, root, running, dock_calls, command>>
    /\ UNCHANGED output
    /\ UNCHANGED <<invokevars, callvars>>

\* a loop over the packets that breaks after a packet that did not succeed
SkimLoopDone_BreakOnFailure == pos > Len(work_packets) \/ any_failed

\* skim.rs:87-128: the for loop over work_packets has no break
SkimLoopDone == pos > Len(work_packets)

\* skim.rs:94-96: create_worktree, its error returned without cleanup
SkimCreateWorktree ==
    /\ pc = "skim_loop"
    /\ ~SkimLoopDone
    /\ \/ /\ CanCreate(Task.agent)
          /\ active' = Append(active, [agent |-> Task.agent, run_id |-> RunId,
                                       base_commit |-> head_sha])
          /\ wtdirs' = wtdirs \cup {Task.agent}
          /\ branches' = branches \cup
                 {[agent |-> Task.agent, attempt |-> attempt, files |-> <<>>,
                   check |-> "none", commit |-> FALSE]}
          /\ pc' = "skim_invoke"
          /\ UNCHANGED result
       \/ /\ Return(ErrResult("CreateFailed"))
          /\ UNCHANGED <<active, wtdirs, branches>>
    /\ UNCHANGED <<config, attempt, replan_context, plan, execution_order, pos,
                   agent_results, all_violations, any_failed, cur, mpos, root,
                   running, dock_calls, skimvars>>
    /\ UNCHANGED output
    /\ UNCHANGED <<invokevars, callvars>>

\* skim.rs:98 into agent.rs:19-46; an error of execute_agent_task is
\* returned after cleanup_run (skim.rs:100-105)
SkimInvokeAgent ==
    /\ pc = "skim_invoke"
    /\ IF agent_role(Task.agent) = None
       THEN /\ \E out \in [ActiveAgents -> RemoveOutcomes] : cleanup_run(out)
            /\ Return(ErrResult("AgentFailed"))
            /\ UNCHANGED running
       ELSE /\ running' = running \cup {Task.agent}
            /\ pc' = "skim_agent_wait"
            /\ UNCHANGED <<result, active, wtdirs, branches>>
    /\ UNCHANGED <<config, attempt, replan_context, plan, execution_order, pos,
                   agent_results, all_violations, any_failed, cur, mpos, root,
                   dock_calls, skimvars>>
    /\ UNCHANGED output
    /\ UNCHANGED <<invokevars, callvars>>

\* skim.rs:98-106 from the return of provider.invoke (agent.rs:46-84)
SkimAgentReturn ==
    /\ pc = "skim_agent_wait"
    /\ running' = running \ {Task.agent}
    /\ \/ /\ \E e \in {"Provider", "AgentFailed"} : Return(ErrResult(e))
          /\ CleanupAfter(branches)
          /\ UNCHANGED <<cur, output>>
       \/ \E diff \in Diffs :
             \/ /\ \E exit_code \in ExitCodes : output' = ProviderOutput(exit_code)
                /\ cur' = BuildResult(Task.agent, TaskIdx, diff)
                /\ branches' = Committed(Task.agent, diff,
                      IF cur'.violations = <<>> THEN "clean" ELSE "violation")
                /\ pc' = "skim_match"
                /\ UNCHANGED <<result, active, wtdirs>>
             \/ /\ CleanupAfter(Committed(Task.agent, diff, "none"))
                /\ Return(ErrResult("AgentFailed"))
                /\ UNCHANGED <<cur, output>>
    /\ UNCHANGED <<config, attempt, replan_context, plan, execution_order, pos,
                   agent_results, all_violations, any_failed, mpos, root,
                   dock_calls, skimvars>>
    /\ UNCHANGED <<invokevars, callvars>>

\* skim.rs:108-127: the match on result.status and the push; no break
SkimMatchStatus ==
    /\ pc = "skim_match"
    /\ all_violations' =
          IF cur.status = "PermissionViolation"
          THEN Append(all_violations,
                      [agent |-> cur.agent, violations |-> cur.violations])
          ELSE all_violations
    /\ any_failed' = (any_failed \/ cur.status # "Success")
    /\ agent_results' = Append(agent_results, cur)
    /\ cur' = NoTask
    /\ output' = NoOutput
    /\ pos' = pos + 1
    /\ pc' = "skim_loop"
    /\ UNCHANGED <<config, attempt, replan_context, plan, execution_order, mpos,
                   active, wtdirs, branches, root, result, running, dock_calls,
                   skimvars>>
    /\ UNCHANGED <<invokevars, callvars>>

\* the for loop over work_packets is exhausted
SkimLoopExit ==
    /\ pc = "skim_loop"
    /\ SkimLoopDone
    /\ pc' = "skim_phase4"
    /\ UNCHANGED <<config, attempt, replan_context, plan, execution_order, pos,
                   agent_results, all_violations, any_failed, cur, mpos, active,
                   wtdirs, branches, root, result, running, dock_calls, skimvars>>
    /\ UNCHANGED output
    /\ UNCHANGED <<invokevars, callvars>>

\* skim.rs:131-140: one iteration of the merge loop over work_packets
SkimMergeNext ==
    /\ pc = "skim_phase4"
    /\ AttemptClean
    /\ mpos <= Len(work_packets)
    /\ LET wt == find_worktree(work_packets[mpos].agent, RunId)
       IN \/ /\ IF wt # <<>> THEN root' = merge_changes(wt[1]) ELSE UNCHANGED root
             /\ mpos' = mpos + 1
             /\ UNCHANGED <<pc, result>>
          \/ /\ wt # <<>>
             /\ Return(ErrResult("GitFailed"))
             /\ UNCHANGED <<root, mpos>>
    /\ UNCHANGED <<config, attempt, replan_context, plan, execution_order, pos,
                   agent_results, all_violations, any_failed, cur, active,
                   wtdirs, branches, running, dock_calls, skimvars>>
    /\ UNCHANGED output
    /\ UNCHANGED <<invokevars, callvars>>

\* skim.rs:141-158: cleanup and return of the result
SkimFinish ==
    /\ pc = "skim_phase4"
    /\ AttemptClean => mpos > Len(work_packets)
    /\ \E out \in [ActiveAgents -> RemoveOutcomes] : cleanup_run(out)
    /\ Return(OkResult(AttemptClean))
    /\ UNCHANGED <<config, attempt, replan_context, plan, execution_order, pos,
                   agent_results, all_violations, any_failed, cur, mpos, root,
                   running, dock_calls, skimvars>>
    /\ UNCHANGED output
    /\ UNCHANGED <<invokevars, callvars>>

----------------------------------------------------------------------------
Next ==
    \/ DockStart
    \/ DockFinish
    \/ CreateWorktree
    \/ LoopExit
    \/ InvokeAgent
    \/ AgentReturn
    \/ MatchStatus
    \/ MergeNext
    \/ FinishMerged
    \/ Reject
    \/ SkimCollect
    \/ SkimCreateWorktree
    \/ SkimInvokeAgent
    \/ SkimAgentReturn
    \/ SkimMatchStatus
    \/ SkimLoopExit
    \/ SkimMergeNext
    \/ SkimFinish

Spec == Init /\ [][Next]_vars

\* the coordinator never stalls: each step is a call that returns (the
\* provider enforces its timeout) or straight-line code
FairSpec == Spec /\ WF_vars(Next)

----------------------------------------------------------------------------
(* ClaudeCliProvider::invoke (provider.rs): the invoking thread, the two   *)
(* reader threads, the child process and the two pipes between them.       *)
(* CodexCliProvider::invoke has the same spawn, wait loop and joins.       *)

PipeNames == {"stdout", "stderr"}

\* what a child does with its pipes: it writes chunks to them in some
\* interleaving; afterwards it exits or hangs
WriteScripts == UNION {[1..n -> PipeNames] : n \in 0..MaxWrites}

\* the variables of a coordinator run, which one invoke call leaves alone
runvars == <<pc, config, attempt, replan_context, plan, execution_order, pos,
             agent_results, all_violations, any_failed, cur, mpos, active,
             wtdirs, branches, root, result, running, dock_calls, command,
             work_packets, output>>

\* the coordinator inside execute_agent_task at agent.rs:46, for the only
\* task of PlanSingle
InsideInvoke ==
    /\ command = "Run"
    /\ pc = "agent_wait"
    /\ config = [max_replan_attempts |-> 0, merge_strategy |-> "AllOrNothing"]
    /\ work_packets = <<>>
    /\ attempt = 0
    /\ replan_context = NoReplan
    /\ plan = PlanSingle
    /\ execution_order = <<0>>
    /\ pos = 1
    /\ agent_results = <<>>
    /\ all_violations = <<>>
    /\ any_failed = FALSE
    /\ cur = NoTask
    /\ mpos = 1
    /\ active = <<[agent |-> "core-agent", run_id |-> RunId, base_commit |-> 0]>>
    /\ wtdirs = {"core-agent"}
    /\ branches = {[agent |-> "core-agent", attempt |-> 0, files |-> <<>>,
                    check |-> "none", commit |-> FALSE]}
    /\ root = <<>>
    /\ result = Running
    /\ running = {"core-agent"}
    /\ dock_calls = 1
    /\ output = NoOutput

\* invoke is entered: the command is built, nothing is spawned yet
InitInvoke ==
    /\ InsideInvoke
    /\ NotCalling
    /\ ipc = "spawn"
    /\ child \in [state : {"unspawned"}, todo : WriteScripts, exits : BOOLEAN,
                  exit_code : ExitCodes]
    /\ pipes = [p \in PipeNames |-> 0]
    /\ threads = [p \in PipeNames |-> "none"]
    /\ holders = {}
    /\ clock = 0
    /\ iret = NoInvokeReturn

InvokeReturn(kind, exit_code) == [kind |-> kind, exit_code |-> exit_code]

\* provider.rs:97-125: cmd.spawn() and the two thread::spawn calls; the
\* child may hand the write ends of its pipes to descendants
SpawnChild ==
    /\ ipc = "spawn"
    /\ \/ /\ \E e \in {"CliNotFound", "Io"} : iret' = InvokeReturn(e, 0)
          /\ ipc' = "returned"
          /\ UNCHANGED <<child, threads, holders>>
       \/ /\ child' = [child EXCEPT !.state = "running"]
          /\ threads' = [p \in PipeNames |-> "reading"]
          /\ \E h \in SUBSET PipeNames : holders' = h
          /\ ipc' = "poll"
          /\ UNCHANGED iret
    /\ UNCHANGED <<pipes, clock>>
    /\ UNCHANGED <<runvars, callvars>>

\* the child writes the next chunk of its script; a full pipe blocks it
ChildBlocked ==
    /\ child.state = "running"
    /\ child.todo # <<>>
    /\ pipes[Head(child.todo)] >= PipeCap

ChildWrite ==
    /\ child.state = "running"
    /\ child.todo # <<>>
    /\ ~ChildBlocked
    /\ pipes' = [pipes EXCEPT ![Head(child.todo)] = @ + 1]
    /\ child' = [child EXCEPT !.todo = Tail(@)]
    /\ UNCHANGED <<ipc, threads, holders, clock, iret>>
    /\ UNCHANGED <<runvars, callvars>>

\* the child exits by itself once its script is done, if it ever does
ChildExit ==
    /\ child.state = "running"
    /\ child.todo = <<>>
    /\ child.exits
    /\ child' = [child EXCEPT !.state = "exited"]
    /\ UNCHANGED <<ipc, pipes, threads, holders, clock, iret>>
    /\ UNCHANGED <<runvars, callvars>>

\* every write end of the pipe is closed; a descendant keeps its copy open
\* for as long as the call is looked at
WriteEndClosed(p) == child.state \in {"exited", "killed"} /\ p \notin holders

\* a reader that drains stderr only once stdout reached end of file
ReaderMayRun_StdoutFirst(p) == p = "stdout" \/ threads["stdout"] # "reading"

\* provider.rs:109,124: each reader runs in a thread of its own
ReaderMayRun(p) == TRUE

\* provider.rs:113 and :219: `for line in reader.lines().flatten()` reads
\* until end of file, then the thread function returns
ReaderStep(p) ==
    /\ threads[p] = "reading"
    /\ ReaderMayRun(p)
    /\ IF pipes[p] > 0
       THEN /\ pipes' = [pipes EXCEPT ![p] = @ - 1]
            /\ UNCHANGED threads
       ELSE /\ WriteEndClosed(p)
            /\ threads' = [threads EXCEPT ![p] = "finished"]
            /\ UNCHANGED pipes
    /\ UNCHANGED <<ipc, child, holders, clock, iret>>
    /\ UNCHANGED <<runvars, callvars>>

\* provider.rs:131-188: one round of the wait loop
TryWait ==
    /\ ipc = "poll"
    /\ \/ /\ child.state = "exited"
          /\ ipc' = "join_stdout"
          /\ UNCHANGED <<child, clock, iret>>
       \/ /\ child.state = "running"
          /\ clock > TimeoutPolls
          /\ child' = [child EXCEPT !.state = "killed"]
          /\ ipc' = "returned"
          /\ iret' = InvokeReturn("Timeout", 0)
          /\ UNCHANGED clock
       \/ /\ child.state = "running"
          /\ clock <= TimeoutPolls
          /\ clock' = clock + 1
          /\ UNCHANGED <<ipc, child, iret>>
       \/ /\ ipc' = "returned"
          /\ iret' = InvokeReturn("Io", 0)
          /\ UNCHANGED <<child, clock>>
    /\ UNCHANGED <<pipes, threads, holders>>
    /\ UNCHANGED <<runvars, callvars>>

\* provider.rs:134: stdout_thread.join()
JoinStdout ==
    /\ ipc = "join_stdout"
    /\ threads["stdout"] = "finished"
    /\ threads' = [threads EXCEPT !["stdout"] = "joined"]
    /\ ipc' = "join_stderr"
    /\ UNCHANGED <<child, pipes, holders, clock, iret>>
    /\ UNCHANGED <<runvars, callvars>>

\* provider.rs:135-169: stderr_thread.join() and return Ok(ProviderOutput)
JoinStderr ==
    /\ ipc = "join_stderr"
    /\ threads["stderr"] = "finished"
    /\ threads' = [threads EXCEPT !["stderr"] = "joined"]
    /\ ipc' = "returned"
    /\ iret' = InvokeReturn("Ok", child.exit_code)
    /\ UNCHANGED <<child, pipes, holders, clock>>
    /\ UNCHANGED <<runvars, callvars>>

InvokeNext ==
    \/ SpawnChild
    \/ ChildWrite
    \/ ChildExit
    \/ \E p \in PipeNames : ReaderStep(p)
    \/ TryWait
    \/ JoinStdout
    \/ JoinStderr

InvokeSpec == InitInvoke /\ [][InvokeNext]_vars

\* the invoking thread and the reader threads are scheduled; nothing is
\* assumed about the child or its descendants
FairInvokeSpec ==
    /\ InvokeSpec
    /\ WF_vars(SpawnChild \/ TryWait \/ JoinStdout \/ JoinStderr)
    /\ \A p \in PipeNames : WF_vars(ReaderStep(p))

----------------------------------------------------------------------------
(* The library functions called on their own: check_agent_permissions,     *)
(* validate_plan, topological_sort (pub fns of the crate) and inspect_diff *)

\* sequences over S of length at most n
SeqsUpTo(S, n) == UNION {[1..k -> S] : k \in 0..n}

\* the elements of a sequence
Range(s) == {s[k] : k \in 1..Len(s)}

\* sequences over S of length at most n that hold no element twice
DistinctSeqsUpTo(S, n) ==
    {s \in SeqsUpTo(S, n) : \A i, j \in 1..Len(s) : s[i] = s[j] => i = j}

\* a call: the function and its arguments; paths is the diff of
\* check_agent_permissions or the uncommitted list of inspect_diff
Call(fn, agent, paths, tasks, untracked, committed) ==
    [fn |-> fn, agent |-> agent, paths |-> paths, tasks |-> tasks,
     untracked |-> untracked, committed |-> committed, registry |-> <<>>,
     run_id |-> "", plan |-> [summary |-> <<>>, tasks |-> 0],
     form |-> "", before |-> <<>>, after |-> <<>>]

Returned(value) == [kind |-> "returned", value |-> value]
Panicked == [kind |-> "panic", value |-> <<>>]

\* check_agent_permissions(agent_name, diff_entries, ctx)
PermissionCalls ==
    {Call("check_agent_permissions", agent, diff, <<>>, <<>>, <<>>) :
        agent \in AgentNames \cup {"docs-agent", "broken-agent"},
        diff \in SeqsUpTo(Paths, MaxDiffLen)}

\* the task lists a DockPlan may hold: depends_on is any list of indices,
\* valid or not
TaskLists(agents) ==
    SeqsUpTo([agent : agents, depends_on : SeqsUpTo(0..MaxTasks, MaxDeps)],
             MaxTasks)

\* a plan whose second task names its dependency twice
PlanDupDeps == <<[agent |-> "core-agent", depends_on |-> <<>>],
                 [agent |-> "core-agent", depends_on |-> <<0, 0>>]>>

\* validate_plan(plan, ctx)
ValidateCalls ==
    {Call("validate_plan", "", <<>>, tasks, <<>>, <<>>) :
        tasks \in TaskLists({"core-agent", "ghost-agent"}) \cup {PlanDupDeps}}

\* topological_sort(plan), which never reads the agent of a task
SortCalls ==
    {Call("topological_sort", "", <<>>, tasks, <<>>, <<>>) :
        tasks \in TaskLists({"core-agent"}) \cup {PlanDupDeps, PlanParallel}}

\* the paths git may list for a worktree
DiffPaths == {SrcAst, SrcCli, SrcAstBog}

\* the lines `git diff --name-status` prints for the paths, all with one
\* status letter: A, M, D or T, a type change
NameStatus(status, paths) ==
    [k \in 1..Len(paths) |-> [status |-> status, path |-> paths[k]]]

\* what git can print for one worktree: a path that is untracked is not in
\* the index, so `git diff HEAD` lists it (as deleted) exactly when HEAD
\* holds it, and HEAD holds a path that the commits since the base added or
\* changed; a path that HEAD lacks is listed by `git diff HEAD` only as added
GitCanPrint(us, uncommitted, untracked, cs, committed) ==
    /\ \A p \in Range(uncommitted) \cap Range(untracked) : us = "D"
    /\ \A p \in Range(untracked) \cap Range(committed) :
          IF cs = "D" THEN p \notin Range(uncommitted) ELSE p \in Range(uncommitted)
    /\ \A p \in Range(uncommitted) \cap Range(committed) : (cs = "D") <=> (us = "A")

\* inspect_diff(worktree): the three git outputs it reads, each of them a
\* list that names a path at most once (`git rm --cached` puts a path both
\* in `git diff HEAD` and in `git ls-files --others`)
DiffCalls ==
    {Call("inspect_diff", "", NameStatus(us, uncommitted), <<>>, untracked,
          NameStatus(cs, committed)) :
        <<us, uncommitted, untracked, cs, committed>> \in
            {x \in {"A", "M", "D"}
                    \X DistinctSeqsUpTo(DiffPaths, MaxDiffLen)
                    \X DistinctSeqsUpTo(DiffPaths, MaxDiffLen)
                    \X {"A", "D", "T"}
                    \X DistinctSeqsUpTo(DiffPaths, MaxDiffLen) :
                GitCanPrint(x[1], x[2], x[3], x[4], x[5])}}

\* worktree.rs:318-323: the match on the first character of the status
change_type(status) ==
    CASE status = "A" -> "Added"
      [] status = "M" -> "Modified"
      [] status = "D" -> "Deleted"
      [] OTHER -> "Modified"

\* worktree.rs parse_name_status: one DiffEntry per line
parse_name_status(lines) ==
    [k \in 1..Len(lines) |->
        [path |-> lines[k].path, change_type |-> change_type(lines[k].status)]]

\* worktree.rs:132-140: every untracked file is pushed as Added
PushUntracked(entries, untracked) ==
    entries \o [k \in 1..Len(untracked) |->
                   [path |-> untracked[k], change_type |-> "Added"]]

\* worktree.rs:154-158: push each committed entry whose path is not yet there
RECURSIVE PushUnseen(_, _)
PushUnseen(entries, committed) ==
    IF committed = <<>> THEN entries
    ELSE PushUnseen(IF \E e \in Range(entries) : e.path = Head(committed).path
                    THEN entries
                    ELSE Append(entries, Head(committed)),
                    Tail(committed))

\* worktree.rs inspect_diff: the entries of `git diff HEAD`, then every
\* untracked file, then the committed entries whose path is not yet there
inspect_diff(uncommitted, untracked, committed) ==
    PushUnseen(PushUntracked(parse_name_status(uncommitted), untracked),
               parse_name_status(committed))

\* --- parse_dock_output (dock.rs) ---
\* A text is a list of characters: "{" and "}", "q" the double quote, "b"
\* the backslash, " " white space, "a" any other character; "FENCEjson" and
\* "FENCE" the three backquotes with and without `json` after them, and "R"
\* the key "result" with its colon, each taken as one character. A DockPlan is reduced to its summary and the number of
\* its tasks; the keys, the commas and the brackets of its JSON text, which
\* the extraction never looks at, are left out.

SummaryChars == {"a", "q", "}", "FENCE"}
ProseChars == {"a", " ", "{"}
TextChars == {"a", " ", "{", "}", "q", "FENCE"}

DockPlans == [summary : SeqsUpTo(SummaryChars, MaxSummaryLen), tasks : 0..1]
NoDockPlan == [summary |-> <<>>, tasks |-> 0]

PlanOk(p) == [ok |-> TRUE, plan |-> p, error |-> ""]
DockFailed == [ok |-> FALSE, plan |-> NoDockPlan, error |-> "DockFailed"]

\* str::trim
RECURSIVE trim_start(_)
trim_start(t) == IF t # <<>> /\ Head(t) = " " THEN trim_start(Tail(t)) ELSE t
RECURSIVE trim_end(_)
trim_end(t) ==
    IF t # <<>> /\ t[Len(t)] = " " THEN trim_end(SubSeq(t, 1, Len(t) - 1)) ELSE t
trim(t) == trim_end(trim_start(t))

\* the characters of a string inside a JSON string literal
RECURSIVE Escape(_)
Escape(s) ==
    IF s = <<>> THEN <<>>
    ELSE (IF Head(s) \in {"q", "b"} THEN <<"b", Head(s)>> ELSE <<Head(s)>>)
         \o Escape(Tail(s))

\* a JSON string literal
Quote(s) == <<"q">> \o Escape(s) \o <<"q">>

RECURSIVE TasksJson(_)
TasksJson(n) == IF n = 0 THEN <<>> ELSE <<"{", "}">> \o TasksJson(n - 1)

\* serde_json::to_string(&plan)
to_string(p) == <<"{">> \o Quote(p.summary) \o TasksJson(p.tasks) \o <<"}">>

\* the first position from i on that holds no white space
RECURSIVE SkipWs(_, _)
SkipWs(t, i) == IF i <= Len(t) /\ t[i] = " " THEN SkipWs(t, i + 1) ELSE i

NoString == [ok |-> FALSE, value |-> <<>>, next |-> 0]

\* the body of a string literal from t[i] on, up to its closing quote
RECURSIVE StringBody(_, _, _)
StringBody(t, i, acc) ==
    IF i > Len(t) \/ t[i] = "R" THEN NoString
    ELSE IF t[i] = "q" THEN [ok |-> TRUE, value |-> acc, next |-> i + 1]
    ELSE IF t[i] = "b"
         THEN IF i + 1 <= Len(t) /\ t[i + 1] \in {"q", "b"}
              THEN StringBody(t, i + 2, Append(acc, t[i + 1]))
              ELSE NoString
    ELSE StringBody(t, i + 1, Append(acc, t[i]))

ParseString(t, i) ==
    IF i <= Len(t) /\ t[i] = "q" THEN StringBody(t, i + 1, <<>>) ELSE NoString

\* the task objects from t[i] on
RECURSIVE ParseTasks(_, _, _)
ParseTasks(t, i, n) ==
    LET j == SkipWs(t, i)
        k == SkipWs(t, j + 1)
    IN IF j <= Len(t) /\ t[j] = "{"
       THEN IF k <= Len(t) /\ t[k] = "}"
            THEN ParseTasks(t, k + 1, n + 1)
            ELSE [ok |-> FALSE, n |-> n, next |-> 0]
       ELSE [ok |-> TRUE, n |-> n, next |-> j]

\* serde_json::from_str::<DockPlan>(t): the whole text is one plan
from_str(t) ==
    LET open  == SkipWs(t, 1)
        s     == ParseString(t, SkipWs(t, open + 1))
        ts    == ParseTasks(t, s.next, 0)
        close == ts.next
    IN IF /\ open <= Len(t) /\ t[open] = "{"
          /\ s.ok
          /\ ts.ok
          /\ close <= Len(t) /\ t[close] = "}"
          /\ SkipWs(t, close + 1) > Len(t)
       THEN PlanOk([summary |-> s.value, tasks |-> ts.n])
       ELSE DockFailed

\* dock.rs:63-64: the text is a JSON object whose `result` is a string
result_str(t) ==
    LET open  == SkipWs(t, 1)
        key   == SkipWs(t, open + 1)
        s     == ParseString(t, SkipWs(t, key + 1))
        close == SkipWs(t, s.next)
    IN IF /\ open <= Len(t) /\ t[open] = "{"
          /\ key <= Len(t) /\ t[key] = "R"
          /\ s.ok
          /\ close <= Len(t) /\ t[close] = "}"
          /\ SkipWs(t, close + 1) > Len(t)
       THEN [ok |-> TRUE, value |-> s.value]
       ELSE [ok |-> FALSE, value |-> <<>>]

\* str::find: the first position from i on that holds one of cs, 0 for None
Find(t, cs, i) ==
    LET hits == {k \in i..Len(t) : t[k] \in cs}
    IN IF hits = {} THEN 0 ELSE CHOOSE k \in hits : \A j \in hits : k <= j

\* dock.rs:90-98: the text between the opening fence and the next three
\* backquotes
FencedPlan(t) ==
    LET start == Find(t, {"FENCEjson"}, 1)
        end   == Find(t, {"FENCE", "FENCEjson"}, start + 1)
    IN IF start # 0 /\ end # 0
       THEN from_str(trim(SubSeq(t, start + 1, end - 1)))
       ELSE DockFailed

\* a scan that skips the braces inside string literals
RECURSIVE MatchingBrace_SkipStrings(_, _, _)
MatchingBrace_SkipStrings(t, i, depth) ==
    IF i > Len(t) THEN 0
    ELSE IF t[i] = "q"
         THEN LET s == StringBody(t, i + 1, <<>>)
              IN IF s.ok THEN MatchingBrace_SkipStrings(t, s.next, depth) ELSE 0
    ELSE IF t[i] = "{" THEN MatchingBrace_SkipStrings(t, i + 1, depth + 1)
    ELSE IF t[i] = "}"
         THEN IF depth = 1 THEN i ELSE MatchingBrace_SkipStrings(t, i + 1, depth - 1)
    ELSE MatchingBrace_SkipStrings(t, i + 1, depth)

\* dock.rs:103-117: the position of the brace that brings the depth back to
\* 0, every brace counted; 0 when the scan ends with depth > 0
RECURSIVE MatchingBrace(_, _, _)
MatchingBrace(t, i, depth) ==
    IF i > Len(t) THEN 0
    ELSE IF t[i] = "{" THEN MatchingBrace(t, i + 1, depth + 1)
    ELSE IF t[i] = "}"
         THEN IF depth = 1 THEN i ELSE MatchingBrace(t, i + 1, depth - 1)
    ELSE MatchingBrace(t, i + 1, depth)

\* dock.rs:101-124: the text from the first { to its matching }
BracedPlan(t) ==
    LET start == Find(t, {"{"}, 1)
        end   == IF start = 0 THEN 0 ELSE MatchingBrace(t, start, 0)
    IN IF end # 0 THEN from_str(SubSeq(t, start, end)) ELSE DockFailed

\* dock.rs extract_json_plan
extract_json_plan(text) ==
    LET t == trim(text)
    IN IF from_str(t).ok THEN from_str(t)
       ELSE IF FencedPlan(t).ok THEN FencedPlan(t)
       ELSE IF BracedPlan(t).ok THEN BracedPlan(t)
       ELSE DockFailed

\* dock.rs parse_dock_output
parse_dock_output(stdout) ==
    LET t == trim(stdout)
        r == result_str(t)
    IN IF r.ok /\ extract_json_plan(r.value).ok THEN extract_json_plan(r.value)
       ELSE IF from_str(t).ok THEN from_str(t)
       ELSE extract_json_plan(t)

\* the three ways a plan text is wrapped, and a text as it is
Embed(form, json, before, after) ==
    CASE form = "envelope" -> <<"{", "R">> \o Quote(json) \o <<"}">>
      [] form = "fenced"   -> before \o <<"FENCEjson", " ">> \o json
                                     \o <<" ", "FENCE">> \o after
      [] form = "prose"    -> before \o json \o after
      [] form = "text"     -> before

\* parse_dock_output on the JSON text of a plan wrapped in one of the three
\* ways, or on a text of any characters
ParseCalls ==
    {[Call("parse_dock_output", "", <<>>, <<>>, <<>>, <<>>)
        EXCEPT !.plan = p, !.form = form, !.before = before, !.after = after] :
        p \in DockPlans, form \in {"fenced", "prose"},
        before \in SeqsUpTo(ProseChars, MaxProse),
        after \in SeqsUpTo(ProseChars, MaxProse)}
    \cup
    {[Call("parse_dock_output", "", <<>>, <<>>, <<>>, <<>>)
        EXCEPT !.plan = p, !.form = "envelope"] : p \in DockPlans}
    \cup
    {[Call("parse_dock_output", "", <<>>, <<>>, <<>>, <<>>)
        EXCEPT !.form = "text", !.before = text] :
        text \in SeqsUpTo(TextChars, MaxText)}

\* the stdout handed to parse_dock_output by the call c
Stdout(c) ==
    Embed(c.form, IF c.form = "text" THEN <<>> ELSE to_string(c.plan),
          c.before, c.after)

\* the run ids a WorktreeManager may hold worktrees of
RunIds == {RunId, "other-run"}

\* the worktrees create_worktree may have registered: one per agent and run,
\* since the path and the branch are named after both
Worktrees == [agent : {"core-agent", "cli-agent"}, run_id : RunIds]

\* cleanup_run(run_id) on a manager whose registry is `registry`
CleanupCalls ==
    {[Call("cleanup_run", "", <<>>, <<>>, <<>>, <<>>)
        EXCEPT !.registry = registry, !.run_id = run_id] :
        registry \in DistinctSeqsUpTo(Worktrees, MaxRegistry), run_id \in RunIds}

\* worktree.rs:278-282: the drained worktrees that carry the run id
to_remove(registry, run_id) ==
    SelectSeq(registry, LAMBDA wt : wt.run_id = run_id)

\* a loop that ends at the first removal that fails
RECURSIVE RemoveEach_StopAtFailure(_, _, _)
RemoveEach_StopAtFailure(wts, out, k) ==
    IF k > Len(wts) THEN <<>>
    ELSE <<[wt |-> wts[k], outcome |-> out[k]]>>
         \o (IF out[k] = "remove_failed" THEN <<>>
             ELSE RemoveEach_StopAtFailure(wts, out, k + 1))

\* worktree.rs:289-293: remove_worktree on each drained worktree from the
\* k-th on, out[k] being the outcome for the k-th; an Err is printed
RECURSIVE RemoveEach(_, _, _)
RemoveEach(wts, out, k) ==
    IF k > Len(wts) THEN <<>>
    ELSE <<[wt |-> wts[k], outcome |-> out[k]]>> \o RemoveEach(wts, out, k + 1)

\* worktree.rs cleanup_run on a registry whose worktrees all exist in git:
\* the value returned, the removals attempted, the registry and the
\* directories and branches left; rmdir is the outcome of remove_dir_all on
\* the directory of the run, which holds the worktrees of that run only
cleanup_run_result(registry, run_id, out, rmdir) ==
    LET removals == RemoveEach(to_remove(registry, run_id), out, 1)
        Outcome(wt) == {removals[k].outcome :
                          k \in {j \in 1..Len(removals) : removals[j].wt = wt}}
    IN [ok       |-> TRUE,
        removals |-> removals,
        active   |-> <<>>,
        dirs     |-> {wt \in Range(registry) :
                        \/ wt.run_id # run_id
                        \/ Outcome(wt) = {"remove_failed"} /\ ~rmdir},
        branches |-> {wt \in Range(registry) :
                        \/ wt.run_id # run_id
                        \/ Outcome(wt) # {"removed"}}]

\* plan.rs:90: adj[dep] is indexed without a check
DepsInBounds(tasks) ==
    \A i \in 1..Len(tasks) : \A k \in 1..Len(tasks[i].depends_on) :
        tasks[i].depends_on[k] < Len(tasks)

InitCall ==
    /\ InitRun
    /\ config = [max_replan_attempts |-> 0, merge_strategy |-> "AllOrNothing"]
    /\ InitState
    /\ NotInvoking
    /\ call \in PermissionCalls \cup ValidateCalls \cup SortCalls \cup DiffCalls
                \cup CleanupCalls \cup ParseCalls
    /\ ret = Pending

CallCheckPermissions ==
    /\ call.fn = "check_agent_permissions"
    /\ ret.kind = "pending"
    /\ ret' = Returned(check_agent_permissions(call.agent, call.paths))
    /\ UNCHANGED <<call, runvars, invokevars>>

CallValidatePlan ==
    /\ call.fn = "validate_plan"
    /\ ret.kind = "pending"
    /\ ret' = Returned(validate_plan(call.tasks))
    /\ UNCHANGED <<call, runvars, invokevars>>

CallTopologicalSort ==
    /\ call.fn = "topological_sort"
    /\ ret.kind = "pending"
    /\ ret' = IF DepsInBounds(call.tasks)
              THEN Returned(topological_sort(call.tasks))
              ELSE Panicked
    /\ UNCHANGED <<call, runvars, invokevars>>

CallInspectDiff ==
    /\ call.fn = "inspect_diff"
    /\ ret.kind = "pending"
    /\ ret' = Returned(inspect_diff(call.paths, call.untracked, call.committed))
    /\ UNCHANGED <<call, runvars, invokevars>>

CallCleanupRun ==
    /\ call.fn = "cleanup_run"
    /\ ret.kind = "pending"
    /\ \E out \in [1..Len(to_remove(call.registry, call.run_id)) -> RemoveOutcomes],
          rmdir \in BOOLEAN :
          ret' = Returned(cleanup_run_result(call.registry, call.run_id, out, rmdir))
    /\ UNCHANGED <<call, runvars, invokevars>>

CallParseDockOutput ==
    /\ call.fn = "parse_dock_output"
    /\ ret.kind = "pending"
    /\ ret' = Returned(parse_dock_output(Stdout(call)))
    /\ UNCHANGED <<call, runvars, invokevars>>

CallNext ==
    \/ CallCheckPermissions
    \/ CallValidatePlan
    \/ CallTopologicalSort
    \/ CallInspectDiff
    \/ CallCleanupRun
    \/ CallParseDockOutput

CallSpec == InitCall /\ [][CallNext]_vars

----------------------------------------------------------------------------
(* Properties *)

IsPrefix(a, b) == Len(a) <= Len(b) /\ SubSeq(b, 1, Len(a)) = a

\* the worktree of the agent created in attempt att has been merged
Merged(agent, att) ==
    \E k \in 1..Len(root) : root[k].agent = agent /\ root[k].attempt = att

\* positions of the coordinator inside the task loop of orchestrate
InTaskLoop == pc \in {"loop", "invoke", "agent_wait", "match"}

\* the rules of the plan schema: registered agents, depends_on below own index
PlanWellFormed(tasks) ==
    \A k \in 1..Len(tasks) :
        /\ tasks[k].agent \in {"core-agent", "cli-agent", "quality-agent"}
        /\ \A j \in 1..Len(tasks[k].depends_on) : tasks[k].depends_on[j] < k - 1

\* C1: every worktree merged into the root tree, by orchestrate or by the
\* skim lifecycle, is one whose diff check_agent_permissions found free of
\* violations; a worktree with a violation is never merged.
C1_MergeOnlyAfterCleanCheck ==
    \A k \in 1..Len(root) : root[k].check = "clean"

\* C1 witness: a worktree was merged while another one of the same run holds
\* a diff with a violation
C1_Witness ==
    /\ root # <<>>
    /\ \E b \in branches : b.check = "violation"

\* C2: under AllOrNothing the root tree receives a merge only when every task
\* of the attempt's order has a Success result, and a run that returns
\* merged = false leaves the root tree without any of the tasks' changes.
C2_AllOrNothingMergesLast ==
    (command = "Run" /\ config.merge_strategy = "AllOrNothing") =>
        /\ root # <<>> =>
              /\ Len(agent_results) = Len(execution_order)
              /\ \A k \in 1..Len(agent_results) : agent_results[k].status = "Success"
              /\ \A k \in 1..Len(root) : root[k].attempt = attempt
        /\ (result.kind = "Ok" /\ ~result.merged) => root = <<>>

\* C2 witness: AllOrNothing, the first task succeeded with changes, the second
\* did not, and the run returned merged = false
C2_Witness ==
    /\ command = "Run"
    /\ config.merge_strategy = "AllOrNothing"
    /\ result.kind = "Ok"
    /\ ~result.merged
    /\ Len(agent_results) = 2
    /\ agent_results[1].status = "Success"
    /\ agent_results[1].files_modified # <<>>

\* C3: the coordinator goes back to the planner only from an attempt whose
\* last result is a PermissionViolation; a Failed status or a task-level
\* error never leads to another planner call, and once the run has returned
\* nothing more happens.
C3_OnlyViolationReplans ==
    [][/\ (pc' = "dock" /\ pc # "dock") =>
              /\ agent_results # <<>>
              /\ agent_results[Len(agent_results)].status = "PermissionViolation"
              /\ result'.kind = NoResult
       /\ result'.kind = "Err" => (pc' = "done" /\ dock_calls' = dock_calls)
       /\ pc # "done"]_vars

\* C3 witness: a task-level error ended the run although replan attempts
\* were left
C3_Witness ==
    /\ command = "Run"
    /\ pc = "done"
    /\ result.kind = "Err"
    /\ result.error \in {"Provider", "AgentFailed", "CreateFailed"}
    /\ active # <<>>
    /\ attempt < config.max_replan_attempts

C5_StopsAtFirstNonSuccess ==
    command = "Run" =>
        \A k \in 1..Len(agent_results) :
            agent_results[k].status # "Success" =>
                /\ k = Len(agent_results)
                /\ ~InTaskLoop
                /\ Len(active) <= k
                /\ running = {}

\* C5 witness: the first task of the order of PlanParallel violated and the
\* run ended with the two other tasks, one of them independent, never run
C5_Witness ==
    /\ command = "Run"
    /\ pc = "done"
    /\ plan = PlanParallel
    /\ Len(agent_results) = 1
    /\ agent_results[1].status = "PermissionViolation"

\* C6: under Incremental every Success result already pushed has its worktree
\* merged, at most one worktree exists beyond the pushed results, and the
\* root tree only grows: merges are never rolled back.
C6_IncrementalMergesAtOnce ==
    /\ []((command = "Run" /\ config.merge_strategy = "Incremental") =>
            /\ \A k \in 1..Len(agent_results) :
                  agent_results[k].status = "Success" =>
                      Merged(agent_results[k].agent, attempt)
            /\ Len(active) <= Len(agent_results) + 1)
    /\ [][IsPrefix(root, root')]_vars

\* C6 witness: Incremental, a first task was merged, a later one violated,
\* the run returned merged = false and the merge is still in the root tree
C6_Witness ==
    /\ command = "Run"
    /\ config.merge_strategy = "Incremental"
    /\ result.kind = "Ok"
    /\ ~result.merged
    /\ Len(agent_results) = 2
    /\ Merged(agent_results[1].agent, attempt)

C8_Claim ==
    pc = "done" => (active = <<>> /\ wtdirs = {} /\ branches = {})

\* C9: an error of run_dock ends the run on the spot, with the registry
\* empty and no subprocess alive, and without a further planner call; a plan
\* that is executed obeys the rules of the plan schema.
C9_PlanningFailureIsFatal ==
    /\ [][(pc = "dock_wait" /\ result'.kind = "Err") =>
              /\ pc' = "done"
              /\ active' = <<>>
              /\ running' = {}
              /\ dock_calls' = dock_calls
              /\ UNCHANGED <<wtdirs, branches, root>>]_vars
    /\ [][pc # "done"]_vars
    /\ []((command = "Run" /\ (InTaskLoop \/ pc = "phase3")) => PlanWellFormed(plan))

\* C9 witness: the plan of a replan attempt failed validation
C9_Witness ==
    /\ command = "Run"
    /\ pc = "done"
    /\ attempt >= 1
    /\ result.kind = "Err"
    /\ result.error = "InvalidPlan"

\* C10: at most one provider subprocess is alive; the results of an attempt
\* follow the order of topological_sort; and the task in hand has a Success
\* result of the same attempt for each of its dependencies.
C10_SequentialInDependencyOrder ==
    /\ Cardinality(running) <= 1
    /\ command = "Run" =>
          /\ \A k \in 1..Len(agent_results) :
                /\ k <= Len(execution_order)
                /\ agent_results[k].task_index = execution_order[k]
          /\ pc \in {"invoke", "agent_wait", "match"} =>
                \A j \in 1..Len(Task.depends_on) :
                    \E k \in 1..Len(agent_results) :
                        /\ agent_results[k].task_index = Task.depends_on[j]
                        /\ agent_results[k].status = "Success"

\* C10 witness: the agent of task 2 of PlanParallel runs after tasks 1 and 0
C10_Witness ==
    /\ command = "Run"
    /\ plan = PlanParallel
    /\ pc = "agent_wait"
    /\ TaskIdx = 2
    /\ running = {"quality-agent"}
    /\ Len(agent_results) = 2

\* the Success results of the attempt, in the order they were produced
SuccessResults == SelectSeq(agent_results, LAMBDA r : r.status = "Success")

\* the merges of the current attempt on the root tree, oldest first
AttemptMerges == SelectSeq(root, LAMBDA b : b.attempt = attempt)

\* C11: the root tree changes only in a step that calls merge_changes (the
\* match on a Success result, or one iteration of a final merge loop); such
\* a step adds the merge of exactly one registered worktree and touches
\* neither the registry nor the worktrees; and the merges of the current
\* attempt follow the order in which its Success results were produced.
C11_RootChangedOnlyByMerge ==
    /\ [][root' # root =>
              /\ pc \in {"match", "phase3", "skim_phase4"}
              /\ \E k \in 1..Len(active) : \E b \in BranchOf(active[k].agent) :
                    root' = Append(root, b)
              /\ UNCHANGED <<active, wtdirs, branches>>]_vars
    /\ [](/\ Len(AttemptMerges) <= Len(SuccessResults)
          /\ \A k \in 1..Len(AttemptMerges) :
                k <= Len(SuccessResults) =>
                    AttemptMerges[k].agent = SuccessResults[k].agent)

\* C11 witness: under AllOrNothing the tasks of PlanParallel ran in the order
\* 1, 0, 2 and the first two worktrees were merged in that order
C11_Witness ==
    /\ command = "Run"
    /\ config.merge_strategy = "AllOrNothing"
    /\ plan = PlanParallel
    /\ Len(root) = 2
    /\ root[1].agent = "cli-agent"
    /\ root[2].agent = "core-agent"

\* C15 as claimed: a result built from a subprocess that exited with a
\* nonzero exit code has the status Failed.
C15_Claim ==
    (pc \in {"match", "skim_match"} /\ output.present /\ output.exit_code # 0) =>
        cur.status = "Failed"

\* C12 as claimed: when invoke has returned, every reader thread it spawned
\* has been joined.
C12_Claim ==
    ipc = "returned" => \A p \in PipeNames : threads[p] \in {"none", "joined"}

\* C13 as claimed: every invoke call returns.
C13_Claim == <>(ipc = "returned")

\* C14: a child blocked on a full pipe always has a reader thread that can
\* take data from that pipe, whatever the state of the other pipe, and it
\* does not stay blocked; a reader thread stops only at end of file, with
\* its pipe empty and every write end closed.
C14_NoPipeDeadlock ==
    /\ [](ChildBlocked =>
             /\ threads[Head(child.todo)] = "reading"
             /\ ENABLED ReaderStep(Head(child.todo)))
    /\ [](\A p \in PipeNames :
             threads[p] \in {"finished", "joined"} =>
                 (pipes[p] = 0 /\ WriteEndClosed(p)))
    /\ (ChildBlocked ~> ~ChildBlocked)

\* C14 witness: the child is blocked on a full stderr pipe while the stdout
\* reader waits on an empty stdout pipe that is still open
C14_Witness ==
    /\ ChildBlocked
    /\ Head(child.todo) = "stderr"
    /\ pipes["stdout"] = 0
    /\ threads["stdout"] = "reading"
    /\ Len(child.todo) >= 2

\* check_agent_permissions has returned from the call in hand
PermissionsReturned ==
    call.fn = "check_agent_permissions" /\ ret.kind = "returned"

\* the role rule of spec section "Permission check", stated for one diff
\* entry: a Subsystem agent owns no glob that matches the path, a Skimsystem
\* agent touched a path that does not end with .bog, or the agent has no role
BreaksRoleRule(agent, path) ==
    \/ /\ agent \in {"core-agent", "cli-agent", "docs-agent", "broken-agent"}
       /\ \A g \in Range(agent_file_globs(agent)) :
             ~(pattern_is_valid(g) /\ glob_matches(g, path))
    \/ /\ agent = "quality-agent"
       /\ path[Len(path)] # ".bog"
    \/ agent = "ghost-agent"

\* the paths each agent may touch, worked out by hand for the five paths of
\* the model: src/ast.rs and src/parser/mod.rs (glob src/parser*) for
\* core-agent, src/cli.rs for cli-agent, src/ast.rs.bog for quality-agent
AllowedPaths(agent) ==
    CASE agent = "core-agent" -> {SrcAst, SrcParserMod}
      [] agent = "cli-agent" -> {SrcCli}
      [] agent = "quality-agent" -> {SrcAstBog}
      [] OTHER -> {}

C17_OneViolationPerOffender ==
    PermissionsReturned =>
        /\ ret.value = SelectSeq(call.paths,
                                 LAMBDA p : BreaksRoleRule(call.agent, p))
        /\ Len(ret.value) =
              Cardinality({k \in 1..Len(call.paths) :
                              BreaksRoleRule(call.agent, call.paths[k])})

\* C17 witness: a Skimsystem agent changed two files that are not sidecars
\* and both are reported, in diff order
C17_Witness ==
    /\ PermissionsReturned
    /\ call.agent = "quality-agent"
    /\ call.paths = <<SrcAstBogRs, SrcAst>>
    /\ ret.value = <<SrcAstBogRs, SrcAst>>

\* topological_sort / validate_plan has returned from the call in hand
SortReturned == call.fn = "topological_sort" /\ ret.kind # "pending"
ValidateReturned == call.fn = "validate_plan" /\ ret.kind = "returned"

\* every depends_on index of the task list is below the task's own index
DependsOnPrior(tasks) ==
    \A i \in 1..Len(tasks) : \A k \in 1..Len(tasks[i].depends_on) :
        tasks[i].depends_on[k] < i - 1

\* the 1-based position of task index i in the order
PosIn(order, i) == CHOOSE k \in 1..Len(order) : order[k] = i

\* C18: for a task list whose depends_on indices are all below the task's
\* own index, topological_sort returns Ok with a permutation of all task
\* indices in which each dependency stands before the task that needs it.
C18_SortPutsDependenciesFirst ==
    (SortReturned /\ DependsOnPrior(call.tasks)) =>
        /\ ret.kind = "returned"
        /\ ret.value.ok
        /\ Len(ret.value.order) = Len(call.tasks)
        /\ Range(ret.value.order) = 0..(Len(call.tasks) - 1)
        /\ \A i \in 1..Len(call.tasks) :
              \A k \in 1..Len(call.tasks[i].depends_on) :
                  PosIn(ret.value.order, call.tasks[i].depends_on[k])
                      < PosIn(ret.value.order, i - 1)

\* C18 witness: task 1 depends on task 0 and the sort returned 0 before 1
C18_Witness ==
    /\ SortReturned
    /\ call.tasks = <<[agent |-> "core-agent", depends_on |-> <<>>],
                      [agent |-> "core-agent", depends_on |-> <<0>>]>>
    /\ ret.kind = "returned"
    /\ ret.value.ok
    /\ ret.value.order = <<0, 1>>

\* the three faults of the plan schema
HasPlanFault(tasks) ==
    \E i \in 1..Len(tasks) :
        \/ tasks[i].agent \notin {"core-agent", "cli-agent", "quality-agent"}
        \/ \E k \in 1..Len(tasks[i].depends_on) :
              \/ tasks[i].depends_on[k] >= Len(tasks)
              \/ tasks[i].depends_on[k] >= i - 1

\* C19: validate_plan returns InvalidPlan exactly for the plans that hold a
\* task with an unregistered agent, with a depends_on index at or beyond the
\* task count, or with a depends_on index at or beyond the task's own index;
\* every other plan is Ok.
C19_ValidateRejectsExactlyTheFaults ==
    ValidateReturned => (ret.value <=> ~HasPlanFault(call.tasks))

\* C19 witness: task 0 depends on the later task 1, which is no cycle, and
\* validate_plan returned InvalidPlan
C19_Witness ==
    /\ ValidateReturned
    /\ Len(call.tasks) = 2
    /\ call.tasks[1] = [agent |-> "core-agent", depends_on |-> <<1>>]
    /\ call.tasks[2] = [agent |-> "core-agent", depends_on |-> <<>>]
    /\ ~ret.value

\* C20 as claimed: no path appears twice in the list inspect_diff returns.
C20_Claim ==
    (call.fn = "inspect_diff" /\ ret.kind = "returned") =>
        \A i, j \in 1..Len(ret.value) :
            ret.value[i].path = ret.value[j].path => i = j

CleanupReturned == call.fn = "cleanup_run" /\ ret.kind = "returned"

\* C21: cleanup_run returns Ok and has called remove_worktree on every
\* registered worktree of the run, whichever of the removals failed.
C21_CleanupAttemptsEveryRemoval ==
    CleanupReturned =>
        /\ ret.value.ok
        /\ \A wt \in Range(call.registry) :
              wt.run_id = call.run_id =>
                  \E k \in 1..Len(ret.value.removals) : ret.value.removals[k].wt = wt

\* cleanup_run returned after the first removal failed and a later one was
\* attempted and succeeded
C21_Witness ==
    /\ CleanupReturned
    /\ ret.value.ok
    /\ Len(ret.value.removals) = 2
    /\ ret.value.removals[1].outcome = "remove_failed"
    /\ ret.value.removals[2].outcome = "removed"

\* C30 as claimed: cleanup_run(r) calls remove_worktree on exactly the
\* registered worktrees of run r, and the worktrees of other runs stay in the
\* registry with their directories and branches.
C30_Claim ==
    CleanupReturned =>
        LET others == SelectSeq(call.registry, LAMBDA wt : wt.run_id # call.run_id)
        IN /\ {ret.value.removals[k].wt : k \in 1..Len(ret.value.removals)}
                = {wt \in Range(call.registry) : wt.run_id = call.run_id}
           /\ ret.value.active = others
           /\ Range(others) \subseteq ret.value.dirs
           /\ Range(others) \subseteq ret.value.branches

ParseReturned == call.fn = "parse_dock_output" /\ ret.kind = "returned"

\* C22 as claimed: a plan serialized to JSON and wrapped in an envelope with
\* a string payload, in a fenced block or in prose is extracted equal to the
\* original, and a text that holds no JSON object is rejected with DockFailed.
C22_Claim ==
    ParseReturned =>
        /\ call.form \in {"envelope", "fenced", "prose"} =>
              ret.value = PlanOk(call.plan)
        /\ (call.form = "text" /\ Find(call.before, {"{"}, 1) = 0) =>
              ret.value = DockFailed

\* the (agent, violations) pairs of the results that ended in a violation
ViolationsOf(results) ==
    LET bad == SelectSeq(results, LAMBDA r : r.status = "PermissionViolation")
    IN [k \in 1..Len(bad) |->
           [agent |-> bad[k].agent, violations |-> bad[k].violations]]

AllPacketsSucceeded ==
    /\ Len(agent_results) = Len(work_packets)
    /\ \A k \in 1..Len(agent_results) :
          agent_results[k].status = "Success" /\ agent_results[k].violations = <<>>

\* C23: in a skim run a worktree is merged only after every work packet's
\* task ended in Success without violations; a run that returns its result
\* with a packet that did not succeed has merged nothing, reports
\* merged = false and carries the violations of each violating agent.
C23_SkimMergesOnlyIfAllSucceeded ==
    [][command = "Skim" =>
          /\ root' # root => AllPacketsSucceeded
          /\ (pc' = "done" /\ result'.kind = "Ok" /\ ~AllPacketsSucceeded') =>
                /\ root' = <<>>
                /\ ~result'.merged
                /\ all_violations' = ViolationsOf(agent_results')]_vars

\* a skim run returned its result after the first packet succeeded and the
\* second violated: nothing was merged
C23_Witness ==
    /\ command = "Skim"
    /\ pc = "done"
    /\ result = OkResult(FALSE)
    /\ Len(agent_results) = 2
    /\ agent_results[1].status = "Success"
    /\ agent_results[2].status = "PermissionViolation"
    /\ all_violations # <<>>
    /\ root = <<>>

\* C24: a rejected attempt with violations on the last allowed attempt ends
\* the run with Ok(merged = false) that carries the plan, the agent results
\* and the violations of that attempt; no step returns ReplanExhausted.
C24_ExhaustionIsAFailureResult ==
    [][/\ (/\ pc = "phase3"
           /\ ~AttemptClean
           /\ all_violations # <<>>
           /\ attempt = config.max_replan_attempts) =>
              /\ pc' = "done"
              /\ result' = OkResult(FALSE)
              /\ plan' = plan
              /\ agent_results' = agent_results
              /\ all_violations' = all_violations
       /\ result'.error # "ReplanExhausted"]_vars

\* a run replanned once and was rejected for a violation on its last attempt
C24_Witness ==
    /\ pc = "done"
    /\ config.max_replan_attempts = 1
    /\ attempt = 1
    /\ result = OkResult(FALSE)
    /\ all_violations # <<>>
    /\ agent_results # <<>>

\* the dependency graph has no cycle: the tasks can be ranked so that every
\* task ranks above each of its dependencies
Acyclic(tasks) ==
    \E rank \in [0..(Len(tasks) - 1) -> 0..(Len(tasks) - 1)] :
        \A i \in 1..Len(tasks) : \A k \in 1..Len(tasks[i].depends_on) :
            rank[tasks[i].depends_on[k]] < rank[i - 1]

IsPermutation(order, n) ==
    /\ Len(order) = n
    /\ \A i \in 0..(n - 1) : \E k \in 1..n : order[k] = i

\* C25: on a plan whose depends_on indices are all below the task count,
\* topological_sort returns Ok with a permutation of the task indices when
\* the dependency graph has no cycle, and otherwise emits an order shorter
\* than the task count and returns InvalidPlan.
C25_SortSucceedsIffAcyclic ==
    (SortReturned /\ DepsInBounds(call.tasks)) =>
        IF Acyclic(call.tasks)
        THEN /\ ret.value.ok
             /\ IsPermutation(ret.value.order, Len(call.tasks))
        ELSE /\ ~ret.value.ok
             /\ Len(KahnOrder(call.tasks)) < Len(call.tasks)

\* topological_sort returned InvalidPlan for two tasks that depend on each
\* other
C25_Witness ==
    /\ SortReturned
    /\ call.tasks = <<[agent |-> "core-agent", depends_on |-> <<1>>],
                      [agent |-> "core-agent", depends_on |-> <<0>>]>>
    /\ ~ret.value.ok

\* C26: for a plan that passes the per-task checks of validate_plan (agent
\* registered, every depends_on index below the task count and below the
\* task's own index) the cycle detection at its end does not fail, also
\* when a depends_on list holds an index twice.
C26_CycleCheckNeverFailsAfterIndexRule ==
    (ValidateReturned /\ ~HasPlanFault(call.tasks)) =>
        /\ Len(KahnOrder(call.tasks)) = Len(call.tasks)
        /\ topological_sort(call.tasks).ok

\* validate_plan returned Ok for a plan whose second task lists task 0 twice
C26_Witness ==
    /\ ValidateReturned
    /\ call.tasks = PlanDupDeps
    /\ ret.value
    /\ topological_sort(call.tasks).order = <<0, 1>>

\* the step of the order after which task t is ready: 0 for a task without
\* dependencies, else the position of the last of its dependencies
ReadyAt(tasks, order, t) ==
    LET deps == Range(tasks[t + 1].depends_on)
    IN IF deps = {} THEN 0
       ELSE CHOOSE p \in {PosIn(order, d) : d \in deps} :
                \A d \in deps : PosIn(order, d) <= p

\* task a was made ready after task b: by a later step, or by the same step
\* with a higher index
ReadyLater(tasks, order, a, b) ==
    \/ ReadyAt(tasks, order, a) > ReadyAt(tasks, order, b)
    \/ ReadyAt(tasks, order, a) = ReadyAt(tasks, order, b) /\ a > b

\* C27: the order topological_sort returns is the one of a stack: each task
\* emitted is the most recently made ready of the tasks that wait, so the
\* tasks without dependencies come out in descending index order, and for
\* tasks 0 and 1 independent and task 2 depending on both it is 1, 0, 2.
C27_ReadyTasksLeaveAStack ==
    (SortReturned /\ ret.kind = "returned" /\ ret.value.ok) =>
        LET tasks == call.tasks
            order == ret.value.order
        IN /\ \A k \in 1..Len(order) :
                 \A u \in 0..(Len(tasks) - 1) :
                    (PosIn(order, u) > k /\ ReadyAt(tasks, order, u) < k) =>
                        ReadyLater(tasks, order, order[k], u)
           /\ \A i, j \in 0..(Len(tasks) - 1) :
                 (/\ i < j
                  /\ tasks[i + 1].depends_on = <<>>
                  /\ tasks[j + 1].depends_on = <<>>) =>
                     PosIn(order, j) < PosIn(order, i)
           /\ tasks = PlanParallel => order = <<1, 0, 2>>

\* topological_sort returned 1, 0, 2 for the plan of the parallel test
C27_Witness ==
    /\ SortReturned
    /\ call.tasks = PlanParallel
    /\ ret.kind = "returned"
    /\ ret.value = [ok |-> TRUE, order |-> <<1, 0, 2>>]

InspectReturned == call.fn = "inspect_diff" /\ ret.kind = "returned"

PathsOf(entries) == {entries[k].path : k \in 1..Len(entries)}

\* the change kind of path p in the first of the three sources that lists it
FirstKind(p, uncommitted, untracked, committed) ==
    LET KindIn(lines) ==
            change_type((CHOOSE l \in Range(lines) : l.path = p).status)
    IN IF p \in PathsOf(uncommitted) THEN KindIn(uncommitted)
       ELSE IF p \in Range(untracked) THEN "Added"
       ELSE KindIn(committed)

\* C28 as claimed: the paths inspect_diff returns are those of the
\* uncommitted diff, the untracked files and the committed diff together,
\* and each path is returned with the change kind of the first of these
\* sources that lists it.
C28_Claim ==
    InspectReturned =>
        /\ PathsOf(ret.value)
              = PathsOf(call.paths) \cup Range(call.untracked)
                    \cup PathsOf(call.committed)
        /\ \A k \in 1..Len(ret.value) :
              ret.value[k].change_type
                  = FirstKind(ret.value[k].path, call.paths, call.untracked,
                              call.committed)

BraceDepth(t, start, k) ==
    Cardinality({i \in start..k : t[i] = "{"})
        - Cardinality({i \in start..k : t[i] = "}"})

\* the text from the first "{" to the first position where the depth of the
\* braces counted from there is zero, <<>> if there is no such position
FirstBalanced(t) ==
    LET start == Find(t, {"{"}, 1)
        ends  == {k \in start..Len(t) : start # 0 /\ BraceDepth(t, start, k) = 0}
    IN IF ends = {} THEN <<>>
       ELSE SubSeq(t, start, CHOOSE k \in ends : \A j \in ends : k <= j)

\* the call reaches the brace scan: the text is no plan, no envelope with a
\* plan in it, and holds no fence
ScansBraces ==
    LET t == trim(Stdout(call))
    IN /\ ParseReturned
       /\ ~from_str(t).ok
       /\ ~result_str(t).ok
       /\ Find(t, {"FENCEjson"}, 1) = 0

\* C31: the brace scan parses exactly the text from the first "{" to the
\* first position where the count of all braces, those inside string
\* literals included, is back at zero; if there is no such position or the
\* text is no plan the result is DockFailed, a later "{" is not tried.
C31_BraceScanTakesFirstBalancedText ==
    ScansBraces =>
        LET sub == FirstBalanced(trim(Stdout(call)))
        IN ret.value = IF sub # <<>> /\ from_str(sub).ok
                       THEN from_str(sub)
                       ELSE DockFailed

\* the scan started at a "{" of the prose: the plan that follows was not
\* tried and the call returned DockFailed
C31_Witness ==
    /\ ScansBraces
    /\ call.form = "prose"
    /\ call.before = <<"{">>
    /\ call.after = <<>>
    /\ call.plan = [summary |-> <<"a">>, tasks |-> 1]
    /\ ret.value = DockFailed

\* C32: when a task's agent changed nothing, auto_commit makes no commit and
\* execute_agent_task still returns a result, Success with an empty list of
\* modified files; matching that result leaves the run running and raises
\* neither any_failed nor the violations.
C32_NothingToCommitIsSuccess ==
    [][/\ (/\ pc \in {"agent_wait", "skim_agent_wait"}
           /\ pc' \in {"match", "skim_match"}
           /\ cur'.files_modified = <<>>) =>
              /\ \A b \in branches' :
                    b.agent = cur'.agent => ~b.commit /\ b.files = <<>>
              /\ cur'.status = "Success"
              /\ result' = Running
       /\ (/\ pc \in {"match", "skim_match"}
           /\ cur.files_modified = <<>>
           /\ pc' # "done") =>
              /\ any_failed' = any_failed
              /\ all_violations' = all_violations
              /\ agent_results' = Append(agent_results, cur)
              /\ result' = Running]_vars

\* a run ended merged although its only task changed nothing
C32_Witness ==
    /\ command = "Run"
    /\ pc = "done"
    /\ result = OkResult(TRUE)
    /\ Len(agent_results) = 1
    /\ agent_results[1].status = "Success"
    /\ agent_results[1].files_modified = <<>>
    /\ head_sha = 0

\* C33: a skim run never calls the planner and never starts a second
\* attempt; its results are those of the packets in packet order, one each,
\* and when it returns its result every packet has one, the packets after a
\* violating one included, with the violations of all of them collected.
C33_SkimRunsEveryPacketOnce ==
    command = "Skim" =>
        /\ dock_calls = 0 /\ attempt = 0 /\ replan_context = NoReplan
        /\ Len(agent_results) <= Len(work_packets)
        /\ \A k \in 1..Len(agent_results) :
              /\ agent_results[k].agent = work_packets[k].agent
              /\ agent_results[k].task_index = k - 1
        /\ pc \in {"skim_loop", "skim_phase4", "done"} =>
              all_violations = ViolationsOf(agent_results)
        /\ (pc = "done" /\ result.kind = "Ok") =>
              Len(agent_results) = Len(work_packets)

\* a skim run returned after both of its packets violated: the second ran
\* although the first had violated, and both violations are reported
C33_Witness ==
    /\ command = "Skim"
    /\ pc = "done"
    /\ result = OkResult(FALSE)
    /\ Len(work_packets) = 2
    /\ Len(agent_results) = 2
    /\ agent_results[1].status = "PermissionViolation"
    /\ Len(all_violations) = 2

\* the commit at which worktree w was created holds the changes that result
\* r of the current attempt committed
MergedBefore(w, r) ==
    \E i \in 1..Len(root) :
        /\ root[i].agent = r.agent
        /\ root[i].attempt = attempt
        /\ root[i].files # <<>>
        /\ Cardinality({k \in 1..i : root[k].files # <<>>}) <= w.base_commit

\* C34: the worktrees registered in an attempt of orchestrate are those of the
\* tasks in execution order. Under AllOrNothing they all have one base
\* commit, the root HEAD as it is throughout the task loop, and none holds
\* the changes of a task of the attempt; under Incremental each one holds the
\* changes of every task that succeeded before it in the attempt.
C34_BaseCommitFollowsStrategy ==
    command = "Run" =>
        /\ \A k \in 1..Len(active) :
              /\ k <= Len(execution_order)
              /\ active[k].agent = plan[execution_order[k] + 1].agent
        /\ config.merge_strategy = "AllOrNothing" =>
              /\ \A k \in 1..Len(active) :
                    /\ active[k].base_commit = active[1].base_commit
                    /\ \A j \in 1..Len(agent_results) :
                          ~MergedBefore(active[k], agent_results[j])
              /\ (pc \in {"loop", "invoke", "agent_wait", "match"}) =>
                    \A k \in 1..Len(active) : active[k].base_commit = head_sha
        /\ config.merge_strategy = "Incremental" =>
              \A k \in 1..Len(active) : \A j \in 1..Len(agent_results) :
                  (j < k /\ agent_results[j].status = "Success"
                         /\ agent_results[j].files_modified # <<>>)
                      => MergedBefore(active[k], agent_results[j])

\* under AllOrNothing the worktree of a task that depends on task 0 exists
\* after task 0 succeeded with changes, and both have the same base commit
C34_Witness ==
    /\ command = "Run"
    /\ config.merge_strategy = "AllOrNothing"
    /\ Len(active) = 2
    /\ plan[execution_order[2] + 1].depends_on = <<execution_order[1]>>
    /\ Len(agent_results) >= 1
    /\ agent_results[1].status = "Success"
    /\ agent_results[1].files_modified # <<>>
    /\ active[2].base_commit = active[1].base_commit

\* C35: a step of orchestrate that returns an error leaves the registry and
\* the worktree directories exactly as they were and removes no branch, and
\* in a run that ended with an error every registered worktree still has its
\* directory and its branch.
C35_ErrorReturnSkipsCleanup ==
    /\ [][(command = "Run" /\ result.kind = NoResult /\ result'.kind = "Err") =>
              /\ pc' = "done"
              /\ active' = active
              /\ wtdirs' = wtdirs
              /\ {b.agent : b \in branches'} = {b.agent : b \in branches}]_vars
    /\ []((command = "Run" /\ pc = "done" /\ result.kind = "Err") =>
              \A k \in 1..Len(active) :
                  /\ active[k].agent \in wtdirs
                  /\ BranchOf(active[k].agent) # {})

\* the second task of an attempt failed with an error after the first one
\* succeeded: both worktrees are still registered and on disk
C35_Witness ==
    /\ command = "Run"
    /\ pc = "done"
    /\ result.kind = "Err"
    /\ result.error \in {"Provider", "AgentFailed", "GitFailed"}
    /\ Len(active) = 2
    /\ Len(agent_results) = 1
    /\ \A k \in 1..2 : active[k].agent \in wtdirs /\ BranchOf(active[k].agent) # {}

\* C36: during the final merge loop of AllOrNothing the root tree holds the
\* merges of the results before the loop position, in order, and nothing of
\* the later ones; an error of the loop returns with the root tree as the
\* loop left it, so after a failure at position k the first k-1 worktrees are
\* merged and the k-th and the later ones are not.
C36_FinalMergeIsNotAtomic ==
    /\ []((/\ command = "Run"
           /\ config.merge_strategy = "AllOrNothing"
           /\ \/ pc = "phase3" /\ AttemptClean
              \/ pc = "done" /\ result = ErrResult("GitFailed")) =>
              /\ mpos \in 1..(Len(agent_results) + 1)
              /\ Len(root) = mpos - 1
              /\ \A i \in 1..Len(root) :
                    /\ root[i].agent = agent_results[i].agent
                    /\ root[i].attempt = attempt
              /\ \A j \in mpos..Len(agent_results) :
                    \A i \in 1..Len(root) : root[i].agent # agent_results[j].agent)
    /\ [][(/\ command = "Run"
           /\ config.merge_strategy = "AllOrNothing"
           /\ pc = "phase3"
           /\ result'.kind = "Err") =>
              /\ result' = ErrResult("GitFailed")
              /\ pc' = "done"
              /\ mpos <= Len(agent_results)
              /\ root' = root]_vars

\* the merge of the second of two successful worktrees failed: the run ended
\* with the error and the changes of the first are in the root tree
C36_Witness ==
    /\ command = "Run"
    /\ config.merge_strategy = "AllOrNothing"
    /\ pc = "done"
    /\ result = ErrResult("GitFailed")
    /\ Len(agent_results) = 2
    /\ mpos = 2
    /\ Len(root) = 1
    /\ root[1].agent = agent_results[1].agent
    /\ root[1].files # <<>>

\* C37: no two registered worktrees have the same agent and run id, and
\* find_worktree for the agent of the k-th result is the k-th registered
\* worktree, the one its task ran in; create_worktree for an agent that is
\* already registered, in orchestrate or in skim, ends the run with
\* CreateFailed and registers nothing.
C37_OneWorktreePerAgent ==
    /\ [](/\ \A i, j \in 1..Len(active) :
                (active[i].agent = active[j].agent
                    /\ active[i].run_id = active[j].run_id) => i = j
          /\ \A k \in 1..Len(active) :
                k <= Len(agent_results) =>
                    find_worktree(agent_results[k].agent, RunId) = <<active[k]>>)
    /\ [][(/\ \/ pc = "loop" /\ pos <= Len(execution_order)
              \/ pc = "skim_loop" /\ pos <= Len(work_packets)
           /\ find_worktree(Task.agent, RunId) # <<>>) =>
              /\ result' = ErrResult("CreateFailed")
              /\ pc' = "done"
              /\ active' = active]_vars

\* a plan with two tasks for one agent: the second create_worktree failed
\* while the worktree of the first task was registered
C37_Witness ==
    /\ command = "Run"
    /\ pc = "done"
    /\ result = ErrResult("CreateFailed")
    /\ pos = 2
    /\ Len(active) = 1
    /\ plan[execution_order[2] + 1].agent = active[1].agent
    /\ agent_results[1].agent = active[1].agent

\* C38: when orchestrate has returned a result, the results are those of the
\* tasks of the last plan in execution order; a merged result has no
\* violations and only Success results; a result that is not merged has a
\* last result that is not Success, only Success results before it and at
\* most one entry of violations.
C38_ShapeOfReturnedResult ==
    (command = "Run" /\ pc = "done" /\ result.kind = "Ok") =>
        LET n == Len(agent_results)
        IN /\ n <= Len(execution_order)
           /\ \A k \in 1..n :
                 /\ agent_results[k].task_index = execution_order[k]
                 /\ agent_results[k].agent = plan[execution_order[k] + 1].agent
           /\ result.merged =>
                 /\ all_violations = <<>>
                 /\ \A k \in 1..n : agent_results[k].status = "Success"
           /\ ~result.merged =>
                 /\ n >= 1
                 /\ agent_results[n].status # "Success"
                 /\ \A k \in 1..(n - 1) : agent_results[k].status = "Success"
                 /\ Len(all_violations) <= 1

\* a run whose first attempt was rejected returned the rejection of its
\* second attempt: one Success, then one violation, one entry of violations
C38_Witness ==
    /\ command = "Run"
    /\ pc = "done"
    /\ result = OkResult(FALSE)
    /\ attempt = 1
    /\ Len(agent_results) = 2
    /\ agent_results[1].status = "Success"
    /\ agent_results[2].status = "PermissionViolation"
    /\ Len(all_violations) = 1

\* C39: every registered worktree carries the one run id of the run; a
\* cleanup that left the directory of a worktree behind left its branch
\* behind too; and in a later attempt create_worktree for an agent whose
\* directory or branch was left behind ends the run with CreateFailed.
C39_LeftoverBlocksNextAttempt ==
    /\ [](\A k \in 1..Len(active) : active[k].run_id = RunId)
    /\ [][(command = "Run" /\ pc = "phase3" /\ active' = <<>>) =>
              \A a \in ActiveAgents :
                  a \in wtdirs' => \E b \in branches' : b.agent = a]_vars
    /\ [][(/\ command = "Run"
           /\ pc = "loop"
           /\ pos <= Len(execution_order)
           /\ attempt >= 1
           /\ \/ Task.agent \in wtdirs
              \/ \E b \in branches : b.agent = Task.agent /\ b.attempt < attempt) =>
              /\ result' = ErrResult("CreateFailed")
              /\ pc' = "done"]_vars

\* the removal of an agent's worktree failed when the first attempt was
\* rejected, the second plan names the agent again, and the run ended with
\* CreateFailed at its first task
C39_Witness ==
    /\ command = "Run"
    /\ pc = "done"
    /\ result = ErrResult("CreateFailed")
    /\ attempt = 1
    /\ pos = 1
    /\ active = <<>>
    /\ Task.agent \in wtdirs
    /\ \E b \in branches : b.agent = Task.agent /\ b.attempt = 0

\* the patterns of the agent that compile
UsableGlobs(agent) == SelectSeq(agent_file_globs(agent), pattern_is_valid)

\* C40: for a Subsystem agent the check reports every entry of the diff that
\* no compiling pattern of the agent matches, whatever patterns that do not
\* compile the agent has beside them; so an agent without patterns, or with
\* none that compiles, has its whole diff reported.
C40_SubsystemCheckFailsClosed ==
    (PermissionsReturned /\ agent_role(call.agent) = "Subsystem") =>
        /\ ret.value =
              SelectSeq(call.paths,
                        LAMBDA p : \A k \in 1..Len(UsableGlobs(call.agent)) :
                                      ~glob_matches(UsableGlobs(call.agent)[k], p))
        /\ UsableGlobs(call.agent) = <<>> => ret.value = call.paths

\* an agent whose two patterns both fail to compile changed two files and
\* both are reported
C40_Witness ==
    /\ PermissionsReturned
    /\ call.agent = "broken-agent"
    /\ agent_file_globs(call.agent) # <<>>
    /\ UsableGlobs(call.agent) = <<>>
    /\ call.paths = <<SrcAst, SrcCli>>
    /\ ret.value = <<SrcAst, SrcCli>>

====
